---- MODULE Spec2Model ----
(***************************************************************************)
(* Model of the cine data lake: the batch ingestion pipeline               *)
(* (src/ingestion) with its parquet ledger and run-versioned raw store,    *)
(* and the film reconciliation of the ETL (src/etl).                       *)
(*                                                                         *)
(* Ingestion is modelled at the granularity of its file-system operations: *)
(* every run of run_pipeline is a process whose position (pc) moves from   *)
(* one I/O operation of the code to the next, so that two runs sharing the *)
(* ledger file can interleave exactly where the code lets them.            *)
(***************************************************************************)
EXTENDS Integers, Sequences, FiniteSets, TLC

\* -------------------------------------------------------------------------
\* Bounds of the model
\* -------------------------------------------------------------------------
MaxRuns == 2

MaxEdits == 1

MaxFaults == 1

MaxLedgerLen == 2

MaxRtRows == 2

MaxImdbRows == 2

\* Largest runtime, in minutes, of a raw film row.
MaxMinutes == 2

\* Largest box office, in dollars, of a raw film row.
MaxUsd == 2

\* Longest raw text given to a normalizer, in characters.
MaxTextLen == 3

\* Most rows of a raw reviews table.
MaxReviewRows == 2

\* Most rows of a Film table given to the person extraction.
MaxFilmRows == 1

\* -------------------------------------------------------------------------
\* Values
\* -------------------------------------------------------------------------
\* An absent file.
NoFile == "NoFile"

\* File contents, each standing for one sequence of bytes.
Contents == {"a", "b"}

\* Number of text lines of a content (header line included).
ContentLines(content) ==
    CASE content = "a" -> 3
      [] content = "b" -> 1
      [] OTHER         -> 0

\* Size of a content in bytes (st_size).
ContentBytes(content) ==
    CASE content = "a" -> 30
      [] content = "b" -> 10
      [] OTHER         -> 0

\* hashlib.sha256 over the whole file, read in chunks: a hex digest that
\* differs whenever the bytes differ (collisions are not modelled).
compute_sha256(content) == "sha256:" \o content

Digests == {compute_sha256(c) : c \in Contents}

\* count_lines: count starts at -1, enumerate(fh, start=0) leaves the index
\* of the last line in count, and the function returns max(count, 0).
count_lines(content) ==
    LET count == ContentLines(content) - 1
    IN  IF count > 0 THEN count ELSE 0

\* -------------------------------------------------------------------------
\* Configuration (config.py)
\* -------------------------------------------------------------------------
\* SOURCES, in configuration order.
SOURCES == <<"rt_reviews", "rt_movies", "imdb_kaggle">>

SourceNames == {SOURCES[i] : i \in 1..Len(SOURCES)}

\* The kind of each configured source.
SourceKind(name) == IF name = "imdb_kaggle" THEN "kaggle_imdb" ELSE "csv_local"

\* config.py as written: every csv_local source has input_path and
\* file_name, the kaggle source has dataset_id and file_name.
FullConfig ==
    [s \in SourceNames |->
        [name       |-> s,
         kind       |-> SourceKind(s),
         input_path |-> SourceKind(s) = "csv_local",
         file_name  |-> TRUE,
         dataset_id |-> SourceKind(s) = "kaggle_imdb"]]

\* SourceConfig declares input_path, file_name and dataset_id Optional: the
\* configurations below each drop one required parameter of one source.
ConfigVariants ==
    { FullConfig,
      [FullConfig EXCEPT !["rt_reviews"].input_path = FALSE],
      [FullConfig EXCEPT !["imdb_kaggle"].dataset_id = FALSE],
      [FullConfig EXCEPT !["imdb_kaggle"].file_name = FALSE] }

\* The name of the file a source is stored under (src.name).
FileName(name) ==
    CASE name = "rt_reviews" -> "rotten_tomatoes_movie_reviews.csv"
      [] name = "rt_movies"  -> "rotten_tomatoes_movies.csv"
      [] OTHER               -> "IMDB Dataset.csv"

\* Processes that may run run_pipeline.
Runs == {"run1", "run2"}

\* run_id values: the clock reading, in seconds, when a run starts.
RunIds == 0..MaxRuns

VARIABLES
    config,       \* the SourceConfig of every source
    srcContent,   \* content of each source's input file (NoFile: absent)
    rawStore,     \* data/raw: <<source, run_id>> -> directory state
    ledger,       \* metadata/ingestions.parquet, as the sequence of its rows
    clock,        \* UTC clock, in seconds
    runsStarted,  \* run_pipeline calls made since the initial state
    edits,        \* changes of source files made since the initial state
    pc,           \* position of each run
    runId,        \* run_id of each run
    selected,     \* selected_sources of each run
    idx,          \* index in SOURCES of the source each run works on
    results,      \* results list of each run
    cur,          \* locals of the ingestion each run is in
    ledgerAtStart,\* history: the ledger when each run started
    copies,       \* history: number of copies made per <<source, digest>>
    faults,       \* number of I/O failures so far
    probe,        \* the last already_ingested query put to a given ledger
    rtTable,      \* rows of the raw rt_movies table
    imdbTable,    \* rows of the raw imdb_kaggle table
    films,        \* the Film table built by transform.py
    sparkFilms,   \* the Film table built by spark_transform.py
    built,        \* which of the two Film tables have been built
    call,         \* the last call of a row-level function: input and result
    curated,      \* data/curated and the analytical store: path -> content
    job           \* the transform-stage operation in progress: its locals

ingestVars == <<config, srcContent, rawStore, ledger, clock, runsStarted,
                edits, pc, runId, selected, idx, results, cur,
                ledgerAtStart, copies, faults>>

etlVars == <<rtTable, imdbTable, films, sparkFilms, built, call>>

outVars == <<curated, job>>

vars == <<ingestVars, probe, etlVars, outVars>>

\* -------------------------------------------------------------------------
\* Ledger (utils.py)
\* -------------------------------------------------------------------------
\* A dedup gate that never finds a prior record.
already_ingested_never(df, source, content_hash) == FALSE

\* already_ingested: the rows of the ledger with this source and this
\* content_hash; true when there is one.
already_ingested(df, source, content_hash) ==
    IF Len(df) = 0
    THEN FALSE
    ELSE LET existing == {i \in 1..Len(df) :
                             /\ df[i].source = source
                             /\ df[i].content_hash = content_hash}
         IN  existing # {}

\* A concat that puts the new record first.
concat_record_first(df, record) == <<record>> \o df

\* append_metadata: pd.concat([df, DataFrame([record])]), the frame that
\* to_parquet then writes over the ledger file.
concat_record(df, record) == Append(df, record)

\* build_metadata_record (created_at, a wall-clock timestamp, is left out).
build_metadata_record(run_id, source, status, content_hash, row_count, byte_size, raw_path) ==
    [run_id       |-> run_id,
     source       |-> source,
     status       |-> status,
     content_hash |-> content_hash,
     row_count    |-> row_count,
     byte_size    |-> byte_size,
     raw_path     |-> raw_path]

\* The dict ingest_csv and ingest_kaggle return when the hash is known.
skipped_result(source, file_hash) ==
    [source       |-> source,
     status       |-> "skipped",
     reason       |-> "hash deja present",
     content_hash |-> file_hash]

\* The dict run_for_source returns from its except clause.
failed_result(run_id, source, error) ==
    [run_id       |-> run_id,
     source       |-> source,
     status       |-> "failed",
     content_hash |-> "",
     row_count    |-> 0,
     byte_size    |-> 0,
     raw_path     |-> <<>>,
     error        |-> error]

\* run_for_source appends the result to the ledger when this holds.
should_append(result) == result.status = "completed"

\* Where run_for_source goes once the loader has returned result: into
\* append_metadata, or straight to its return statement.
AfterLoader(result) == IF should_append(result) THEN "loaded" ELSE "ret"

\* -------------------------------------------------------------------------
\* Raw store (utils.py)
\* -------------------------------------------------------------------------
NoMarker == [rows |-> 0, hash |-> "", source |-> "", file |-> ""]

NoDir == [exists |-> FALSE, file |-> NoFile, marker |-> NoMarker]

\* dst_dir / src.name
RawPath(source, run_id) == <<source, run_id, FileName(source)>>

\* The payload of _SUCCESS.json (ingest_kaggle adds the dataset id, which
\* is fixed by the configuration).
success_marker(source, rows, file_hash) ==
    [source |-> source, file |-> FileName(source), rows |-> rows,
     hash |-> file_hash]

\* rows = count_lines(dst_path) - 1
row_count_of(content) == count_lines(content) - 1

\* -------------------------------------------------------------------------
\* Initial state
\* -------------------------------------------------------------------------
NoResult == [status |-> "none"]

NoLocals == [src |-> NoFile, file_hash |-> "", rows |-> 0, byte_size |-> 0,
             result |-> NoResult, loaded |-> <<>>, io |-> {}]

\* The input files before the first run: all present, or one missing.
InitialFiles ==
    { [s \in SourceNames |-> "a"],
      [s \in SourceNames |-> IF s = "rt_movies" THEN NoFile ELSE "a"] }

IngestInit ==
    /\ config \in ConfigVariants
    /\ srcContent \in InitialFiles
    /\ rawStore = [k \in SourceNames \X RunIds |-> NoDir]
    /\ ledger = <<>>
    /\ clock = 0
    /\ runsStarted = 0
    /\ edits = 0
    /\ pc = [r \in Runs |-> "idle"]
    /\ runId = [r \in Runs |-> 0]
    /\ selected = [r \in Runs |-> {}]
    /\ idx = [r \in Runs |-> 1]
    /\ results = [r \in Runs |-> <<>>]
    /\ cur = [r \in Runs |-> NoLocals]
    /\ ledgerAtStart = [r \in Runs |-> <<>>]
    /\ copies = [k \in SourceNames \X Digests |-> 0]
    /\ faults = 0

\* No ledger query has been made.
NoProbe == [asked |-> FALSE, source |-> "", content_hash |-> "",
            answer |-> FALSE]

\* No row-level function has been called.
NoCall == [op |-> "none"]

\* The ETL has no input and has built nothing.
\* The output tables, in the order run_etl and main write them.
TABLES == <<"films", "reviews", "people">>

TableNames == {TABLES[i] : i \in 1..Len(TABLES)}

\* The places of a table under data/curated and in the analytical store:
\*   table_dir   <curated>/<table>
\*   final_path  <curated>/<table>/<table>.parquet
\*   tmp_path    <curated>/<table>/<table>.tmp.parquet
\*   tmp_dir     <curated>/.tmp_<table>_<uuid>
\*   part        <curated>/.tmp_<table>_<uuid>/part-*.parquet
\*   target      <curated uri>/<table>, written by write_table
\*   duckdb      table <table> of metadata/lake.duckdb
PathKinds == {"table_dir", "final_path", "tmp_path", "tmp_dir", "part",
              "target", "duckdb"}

Paths == TableNames \X PathKinds

\* What is found at a path: nothing, a directory, a file of no bytes, a
\* file holding part of a table, or a whole table: the one of an earlier
\* run ("old") or the one of the present run ("new").
Absent == "absent"

Directory == "dir"

NoJob == [op |-> "none"]

\* No output yet and no transform-stage operation in progress.
OutIdle ==
    /\ curated = [p \in Paths |-> Absent]
    /\ job = NoJob

EtlIdle ==
    /\ rtTable = <<>>
    /\ imdbTable = <<>>
    /\ films = <<>>
    /\ sparkFilms = {}
    /\ built = {}
    /\ OutIdle
    /\ call = NoCall

Init == IngestInit /\ probe = NoProbe /\ EtlIdle

AtRest(r) == pc[r] \in {"idle", "done", "crashed"}

\* -------------------------------------------------------------------------
\* run_pipeline (pipeline.py)
\* -------------------------------------------------------------------------
\* run_pipeline starts: run_id is the clock reading to the second, selected
\* is the set of selected names, or empty for all sources.  The clock may
\* have moved to the next second since the previous run started, or not.
StartRun(r, sel, tick) ==
    /\ AtRest(r)
    /\ runsStarted < MaxRuns
    /\ runsStarted' = runsStarted + 1
    /\ clock' = clock + tick
    /\ runId' = [runId EXCEPT ![r] = clock']
    /\ selected' = [selected EXCEPT ![r] = sel]
    /\ idx' = [idx EXCEPT ![r] = 1]
    /\ results' = [results EXCEPT ![r] = <<>>]
    /\ cur' = [cur EXCEPT ![r] = NoLocals]
    /\ ledgerAtStart' = [ledgerAtStart EXCEPT ![r] = ledger]
    /\ pc' = [pc EXCEPT ![r] = "loop"]
    /\ UNCHANGED <<config, srcContent, rawStore, ledger, edits, copies,
                   faults>>
    /\ UNCHANGED <<probe, etlVars, outVars>>

\* for config in SOURCES: skip the sources that are not selected, call
\* run_for_source on the others, return results after the last one.
LoopNext(r) ==
    /\ pc[r] = "loop"
    /\ IF idx[r] > Len(SOURCES)
       THEN /\ pc' = [pc EXCEPT ![r] = "done"]
            /\ UNCHANGED <<idx, cur>>
       ELSE IF selected[r] # {} /\ SOURCES[idx[r]] \notin selected[r]
       THEN /\ idx' = [idx EXCEPT ![r] = @ + 1]
            /\ UNCHANGED <<pc, cur>>
       ELSE /\ pc' = [pc EXCEPT ![r] = "begin"]
            /\ cur' = [cur EXCEPT ![r] = NoLocals]
            /\ UNCHANGED idx
    /\ UNCHANGED <<config, srcContent, rawStore, ledger, clock, runsStarted,
                   edits, runId, selected, results, ledgerAtStart, copies,
                   faults>>
    /\ UNCHANGED <<probe, etlVars, outVars>>

\* The locals of run r after an exception reached the except clause of
\* run_for_source: the result is the failed record.
Raised(r, error) ==
    [cur[r] EXCEPT !.result = failed_result(runId[r], SOURCES[idx[r]], error)]

Cfg(r) == config[SOURCES[idx[r]]]

\* A first check that tests input_path only, not the file's presence.
csv_input_missing_unset_only(cfg, content) == ~cfg.input_path

\* The first check of ingest_csv: input_path unset, or no file there.
\* input_path.exists() is only evaluated when input_path is set.
csv_input_missing(cfg, content) == ~cfg.input_path \/ content = NoFile

\* run_for_source enters the loader of the source kind.  ingest_csv raises
\* FileNotFoundError when the input is missing; _download_dataset raises
\* ValueError when dataset_id is unset; an unknown kind raises ValueError.
Begin(r) ==
    /\ pc[r] = "begin"
    /\ LET cfg == Cfg(r)
       IN  CASE cfg.kind = "csv_local" ->
                  IF csv_input_missing(cfg, srcContent[cfg.name])
                  THEN /\ cur' = [cur EXCEPT ![r] =
                                    [Raised(r, "Fichier introuvable") EXCEPT
                                       !.io = IF cfg.input_path
                                              THEN {"stat"} ELSE {}]]
                       /\ pc' = [pc EXCEPT ![r] = "ret"]
                  ELSE /\ cur' = [cur EXCEPT ![r].io = {"stat"}]
                       /\ pc' = [pc EXCEPT ![r] = "hash"]
             [] cfg.kind = "kaggle_imdb" ->
                  IF ~cfg.dataset_id
                  THEN /\ cur' = [cur EXCEPT ![r] =
                                    Raised(r, "dataset_id obligatoire")]
                       /\ pc' = [pc EXCEPT ![r] = "ret"]
                  ELSE /\ pc' = [pc EXCEPT ![r] = "download"]
                       /\ UNCHANGED cur
             [] OTHER ->
                  /\ cur' = [cur EXCEPT ![r] =
                               Raised(r, "Type de source inconnu")]
                  /\ pc' = [pc EXCEPT ![r] = "ret"]
    /\ UNCHANGED <<config, srcContent, rawStore, ledger, clock, runsStarted,
                   edits, runId, selected, idx, results, ledgerAtStart,
                   copies, faults>>
    /\ UNCHANGED <<probe, etlVars, outVars>>

\* _download_dataset after the dataset_id check: kagglehub.dataset_download
\* fetches the dataset, then file_name is checked, then the file's presence.
Download(r) ==
    /\ pc[r] = "download"
    /\ LET cfg == Cfg(r)
           got == [cur[r] EXCEPT !.io = @ \cup {"download"},
                                 !.src = srcContent[cfg.name]]
       IN  IF ~cfg.file_name
           THEN /\ cur' = [cur EXCEPT ![r] =
                             [got EXCEPT !.result =
                                failed_result(runId[r], cfg.name,
                                              "file_name obligatoire")]]
                /\ pc' = [pc EXCEPT ![r] = "ret"]
           ELSE IF got.src = NoFile
           THEN /\ cur' = [cur EXCEPT ![r] =
                             [got EXCEPT !.io = @ \cup {"stat"},
                                         !.result =
                                failed_result(runId[r], cfg.name,
                                              "Fichier introuvable")]]
                /\ pc' = [pc EXCEPT ![r] = "ret"]
           ELSE /\ cur' = [cur EXCEPT ![r] =
                             [got EXCEPT !.io = @ \cup {"stat"}]]
                /\ pc' = [pc EXCEPT ![r] = "hash"]
    /\ UNCHANGED <<config, srcContent, rawStore, ledger, clock, runsStarted,
                   edits, runId, selected, idx, results, ledgerAtStart,
                   copies, faults>>
    /\ UNCHANGED <<probe, etlVars, outVars>>

\* The file a loader works on: the input file of a csv_local source, the
\* downloaded file of a kaggle source.
SrcFile(r) ==
    IF Cfg(r).kind = "csv_local" THEN srcContent[Cfg(r).name] ELSE cur[r].src

\* file_hash = compute_sha256(src)
Hash(r) ==
    /\ pc[r] = "hash"
    /\ IF SrcFile(r) = NoFile
       THEN /\ cur' = [cur EXCEPT ![r] =
                         [Raised(r, "No such file") EXCEPT
                            !.io = @ \cup {"read"}]]
            /\ pc' = [pc EXCEPT ![r] = "ret"]
       ELSE /\ cur' = [cur EXCEPT ![r].file_hash = compute_sha256(SrcFile(r)),
                                  ![r].io = @ \cup {"read"}]
            /\ pc' = [pc EXCEPT ![r] = "gate"]
    /\ UNCHANGED <<config, srcContent, rawStore, ledger, clock, runsStarted,
                   edits, runId, selected, idx, results, ledgerAtStart,
                   copies, faults>>
    /\ UNCHANGED <<probe, etlVars, outVars>>

\* if already_ingested(config.name, file_hash): return the skipped dict.
Gate(r) ==
    /\ pc[r] = "gate"
    /\ IF already_ingested(ledger, Cfg(r).name, cur[r].file_hash)
       THEN /\ cur' = [cur EXCEPT ![r].result =
                         skipped_result(Cfg(r).name, cur[r].file_hash),
                                  ![r].io = @ \cup {"ledger_read"}]
            /\ pc' = [pc EXCEPT ![r] = AfterLoader(cur'[r].result)]
       ELSE /\ cur' = [cur EXCEPT ![r].io = @ \cup {"ledger_read"}]
            /\ pc' = [pc EXCEPT ![r] = "mkdir"]
    /\ UNCHANGED <<config, srcContent, rawStore, ledger, clock, runsStarted,
                   edits, runId, selected, idx, results, ledgerAtStart,
                   copies, faults>>
    /\ UNCHANGED <<probe, etlVars, outVars>>

Dir(r) == <<Cfg(r).name, runId[r]>>

\* run_folder = make_run_folder(config.name, run_id): mkdir with
\* parents=True, exist_ok=True.
MakeRunFolder(r) ==
    /\ pc[r] = "mkdir"
    /\ rawStore' = [rawStore EXCEPT ![Dir(r)].exists = TRUE]
    /\ cur' = [cur EXCEPT ![r].io = @ \cup {"mkdir"}]
    /\ pc' = [pc EXCEPT ![r] = "copy"]
    /\ UNCHANGED <<config, srcContent, ledger, clock, runsStarted, edits,
                   runId, selected, idx, results, ledgerAtStart, copies,
                   faults>>
    /\ UNCHANGED <<probe, etlVars, outVars>>

\* dst_path = copy_with_metadata(src, run_folder): shutil.copy2 writes the
\* file's present content over dst_dir / src.name.
Copy(r) ==
    /\ pc[r] = "copy"
    /\ IF SrcFile(r) = NoFile
       THEN /\ cur' = [cur EXCEPT ![r] =
                         [Raised(r, "No such file") EXCEPT
                            !.io = @ \cup {"copy"}]]
            /\ pc' = [pc EXCEPT ![r] = "ret"]
            /\ UNCHANGED <<rawStore, copies>>
       ELSE /\ rawStore' = [rawStore EXCEPT ![Dir(r)].file = SrcFile(r)]
            /\ copies' = [copies EXCEPT
                            ![<<Cfg(r).name, cur[r].file_hash>>] = @ + 1]
            /\ cur' = [cur EXCEPT ![r].io = @ \cup {"copy"}]
            /\ pc' = [pc EXCEPT ![r] = "count"]
    /\ UNCHANGED <<config, srcContent, ledger, clock, runsStarted, edits,
                   runId, selected, idx, results, ledgerAtStart, faults>>
    /\ UNCHANGED <<probe, etlVars, outVars>>

\* rows = count_lines(dst_path) - 1; byte_size = dst_path.stat().st_size
Count(r) ==
    /\ pc[r] = "count"
    /\ cur' = [cur EXCEPT ![r].rows = row_count_of(rawStore[Dir(r)].file),
                          ![r].byte_size = ContentBytes(rawStore[Dir(r)].file)]
    /\ pc' = [pc EXCEPT ![r] = "marker"]
    /\ UNCHANGED <<config, srcContent, rawStore, ledger, clock, runsStarted,
                   edits, runId, selected, idx, results, ledgerAtStart,
                   copies, faults>>
    /\ UNCHANGED <<probe, etlVars, outVars>>

\* write_success_marker, then build_metadata_record: the loader returns the
\* completed record to run_for_source.
WriteMarker(r) ==
    /\ pc[r] = "marker"
    /\ rawStore' = [rawStore EXCEPT ![Dir(r)].marker =
                      success_marker(Cfg(r).name, cur[r].rows,
                                     cur[r].file_hash)]
    /\ cur' = [cur EXCEPT
                 ![r].result =
                     build_metadata_record(runId[r], Cfg(r).name, "completed",
                                           cur[r].file_hash, cur[r].rows,
                                           cur[r].byte_size,
                                           RawPath(Cfg(r).name, runId[r])),
                 ![r].io = @ \cup {"marker"}]
    /\ pc' = [pc EXCEPT ![r] = AfterLoader(cur'[r].result)]
    /\ UNCHANGED <<config, srcContent, ledger, clock, runsStarted, edits,
                   runId, selected, idx, results, ledgerAtStart, copies,
                   faults>>
    /\ UNCHANGED <<probe, etlVars, outVars>>

\* run_for_source after the try block: a result that should_append goes to
\* append_metadata, whose first statement reads the ledger file.
AppendLoad(r) ==
    /\ pc[r] = "loaded"
    /\ cur' = [cur EXCEPT ![r].loaded = ledger,
                          ![r].io = @ \cup {"ledger_read"}]
    /\ pc' = [pc EXCEPT ![r] = "write"]
    /\ UNCHANGED <<config, srcContent, rawStore, ledger, clock, runsStarted,
                   edits, runId, selected, idx, results, ledgerAtStart,
                   copies, faults>>
    /\ UNCHANGED <<probe, etlVars, outVars>>

\* append_metadata: df.to_parquet writes the frame that was read, with the
\* record concatenated, over the ledger file.
AppendWrite(r) ==
    /\ pc[r] = "write"
    /\ ledger' = concat_record(cur[r].loaded, cur[r].result)
    /\ cur' = [cur EXCEPT ![r].io = @ \cup {"ledger_write"}]
    /\ pc' = [pc EXCEPT ![r] = "ret"]
    /\ UNCHANGED <<config, srcContent, rawStore, clock, runsStarted, edits,
                   runId, selected, idx, results, ledgerAtStart, copies,
                   faults>>
    /\ UNCHANGED <<probe, etlVars, outVars>>

\* run_for_source returns and run_pipeline appends the result to results.
Return(r) ==
    /\ pc[r] = "ret"
    /\ results' = [results EXCEPT ![r] = Append(@, cur[r].result)]
    /\ idx' = [idx EXCEPT ![r] = @ + 1]
    /\ pc' = [pc EXCEPT ![r] = "loop"]
    /\ UNCHANGED <<config, srcContent, rawStore, ledger, clock, runsStarted,
                   edits, runId, selected, cur, ledgerAtStart, copies, faults>>
    /\ UNCHANGED <<probe, etlVars, outVars>>

\* -------------------------------------------------------------------------
\* Environment
\* -------------------------------------------------------------------------
\* Between runs, a source's input file is replaced, created or removed.
EditSource(name, content) ==
    /\ \A r \in Runs : AtRest(r)
    /\ edits < MaxEdits
    /\ content # srcContent[name]
    /\ srcContent' = [srcContent EXCEPT ![name] = content]
    /\ edits' = edits + 1
    /\ UNCHANGED <<config, rawStore, ledger, clock, runsStarted, pc, runId,
                   selected, idx, results, cur, ledgerAtStart, copies, faults>>
    /\ UNCHANGED <<probe, etlVars, outVars>>

\* The values run_pipeline's selected_sources argument is drawn from: none
\* (all sources), one name, or two names around an unselected one.
Selections == { {}, {"rt_movies"}, {"rt_reviews", "imdb_kaggle"} }

\* One step of run r.
Step(r) ==
    \/ LoopNext(r)
    \/ Begin(r)
    \/ Download(r)
    \/ Hash(r)
    \/ Gate(r)
    \/ MakeRunFolder(r)
    \/ Copy(r)
    \/ Count(r)
    \/ WriteMarker(r)
    \/ AppendLoad(r)
    \/ AppendWrite(r)
    \/ Return(r)

\* Runs executed one at a time: a single process runs run_pipeline again
\* and again.
Next ==
    \/ \E sel \in Selections, tick \in {0, 1} : StartRun("run1", sel, tick)
    \/ Step("run1")
    \/ \E name \in SourceNames, content \in Contents \cup {NoFile} :
          EditSource(name, content)

Spec == Init /\ [][Next]_vars

\* -------------------------------------------------------------------------
\* I/O failures
\* -------------------------------------------------------------------------
\* An operation of the loader raises (network, permissions, disk): the
\* exception reaches the except clause of run_for_source.  A failed copy
\* may leave a truncated file behind, a failed marker write an empty one.
LoaderFault(r) ==
    /\ pc[r] \in {"download", "hash", "gate", "mkdir", "copy", "count",
                  "marker"}
    /\ faults < MaxFaults
    /\ faults' = faults + 1
    /\ cur' = [cur EXCEPT ![r] = Raised(r, "I/O error")]
    /\ pc' = [pc EXCEPT ![r] = "ret"]
    /\ \/ UNCHANGED rawStore
       \/ /\ pc[r] = "copy"
          /\ rawStore' = [rawStore EXCEPT ![Dir(r)].file = "truncated"]
       \/ /\ pc[r] = "marker"
          /\ rawStore' = [rawStore EXCEPT ![Dir(r)].marker =
                            [NoMarker EXCEPT !.file = "empty"]]
    /\ UNCHANGED <<config, srcContent, ledger, clock, runsStarted, edits,
                   runId, selected, idx, results, ledgerAtStart, copies>>
    /\ UNCHANGED <<probe, etlVars, outVars>>

\* append_metadata raises while reading or before writing the ledger file:
\* the call is outside the try block of run_for_source and run_pipeline
\* has no handler, so the exception ends the run.
AppendFault(r) ==
    /\ pc[r] \in {"loaded", "write"}
    /\ faults < MaxFaults
    /\ faults' = faults + 1
    /\ pc' = [pc EXCEPT ![r] = "crashed"]
    /\ UNCHANGED <<config, srcContent, rawStore, ledger, clock, runsStarted,
                   edits, runId, selected, idx, results, cur, ledgerAtStart,
                   copies>>
    /\ UNCHANGED <<probe, etlVars, outVars>>

\* Runs executed one at a time, with I/O failures.
NextFault ==
    \/ \E sel \in Selections, tick \in {0, 1} : StartRun("run1", sel, tick)
    \/ Step("run1")
    \/ LoaderFault("run1")
    \/ AppendFault("run1")
    \/ \E name \in SourceNames, content \in Contents \cup {NoFile} :
          EditSource(name, content)

\* The pipeline as configured in config.py.
InitConfigured == Init /\ config = FullConfig

SpecFault == InitConfigured /\ [][NextFault]_vars

\* Two runs of run_pipeline at once on the same ledger file and raw store,
\* the input files staying as they are.
NextConc ==
    \/ \E r \in Runs, sel \in Selections, tick \in {0, 1} :
          StartRun(r, sel, tick)
    \/ \E r \in Runs : Step(r)

SpecConc == InitConfigured /\ [][NextConc]_vars

\* -------------------------------------------------------------------------
\* Properties of the ingestion ledger
\* -------------------------------------------------------------------------
\* Number of completed rows of df for (source, content_hash).
CompletedCount(df, source, content_hash) ==
    Cardinality({i \in 1..Len(df) :
                    /\ df[i].status = "completed"
                    /\ df[i].source = source
                    /\ df[i].content_hash = content_hash})

\* The source run r is working on.
CurSource(r) == SOURCES[idx[r]]

\* C1: runs executed one at a time copy each (source, content) at most once
\* and record it completed at most once; an ingestion that hashed its file
\* ends skipped or completed, with exactly one completed record for the
\* pair in the ledger: skipped (without run folder, copy or marker) when
\* the record was there before, completed with a new last record when the
\* content was new for the source.
C1_DedupOncePerContent ==
    /\ \A s \in SourceNames, h \in Digests :
          /\ copies[<<s, h>>] <= 1
          /\ CompletedCount(ledger, s, h) <= 1
    /\ \A r \in Runs :
          (pc[r] = "ret" /\ cur[r].file_hash # "") =>
              LET res == cur[r].result
              IN  /\ res.status \in {"skipped", "completed"}
                  /\ CompletedCount(ledger, CurSource(r), cur[r].file_hash) = 1
                  /\ res.status = "skipped" =>
                        /\ cur[r].io \cap {"mkdir", "copy", "marker",
                                           "ledger_write"} = {}
                        /\ res.content_hash = cur[r].file_hash
                  /\ res.status = "completed" =>
                        /\ ledger[Len(ledger)] = res
                        /\ copies[<<CurSource(r), cur[r].file_hash>>] = 1

\* C1 witness: a second ingestion of the same content ended skipped while
\* the ledger holds the completed record of the first.
C1_Witness ==
    \E r \in Runs :
        /\ pc[r] = "ret"
        /\ cur[r].result.status = "skipped"
        /\ CompletedCount(ledger, CurSource(r), cur[r].file_hash) = 1
        /\ copies[<<CurSource(r), cur[r].file_hash>>] = 1

\* C3: when a pipeline run has returned, the ledger has grown by one record
\* per source whose outcome was completed or skipped.
C3_CompletedOrSkippedRecorded ==
    \A r \in Runs :
        pc[r] = "done" =>
            Len(ledger) - Len(ledgerAtStart[r]) =
                Cardinality({i \in 1..Len(results[r]) :
                    results[r][i].status \in {"completed", "skipped"}})

\* C4: every step leaves the ledger as it was or extends it at the end by
\* one record.
C4_LedgerAppendOnly ==
    [][ \/ ledger' = ledger
        \/ /\ Len(ledger') = Len(ledger) + 1
           /\ SubSeq(ledger', 1, Len(ledger)) = ledger ]_vars

\* C4 witness: the ledger was extended twice.
C4_Witness == Len(ledger) >= 2

\* C5: when run_for_source is entered for a csv_local source whose input is
\* missing, its next step decides a failed result naming the source, with
\* a non-empty error, and changes neither the ledger nor the raw store; the
\* return that follows hands that result to run_pipeline, again without
\* touching the ledger or the raw store.
C5_MissingInputFails ==
    [][ \A r \in Runs :
          /\ ( /\ pc[r] = "begin"
               /\ pc'[r] # "begin"
               /\ Cfg(r).kind = "csv_local"
               /\ (~Cfg(r).input_path \/ srcContent[CurSource(r)] = NoFile) )
             => /\ pc'[r] = "ret"
                /\ cur'[r].result.status = "failed"
                /\ cur'[r].result.source = CurSource(r)
                /\ cur'[r].result.error # ""
                /\ cur'[r].io \subseteq {"stat"}
                /\ ledger' = ledger
                /\ rawStore' = rawStore
          /\ ( /\ pc[r] = "ret"
               /\ pc'[r] # "ret"
               /\ cur[r].result.status = "failed" )
             => /\ results'[r] = Append(results[r], cur[r].result)
                /\ ledger' = ledger
                /\ rawStore' = rawStore ]_vars

\* C5 witness: a failed result was returned for a csv_local source whose
\* input file does not exist.
C5_Witness ==
    \E r \in Runs :
        /\ pc[r] = "loop"
        /\ Len(results[r]) >= 1
        /\ LET res == results[r][Len(results[r])]
           IN  /\ res.status = "failed"
               /\ res.error = "Fichier introuvable"
               /\ config[res.source].kind = "csv_local"
               /\ config[res.source].input_path
               /\ srcContent[res.source] = NoFile

\* The configured sources a run selected, in configuration order.
SelectedSources(r) ==
    SelectSeq(SOURCES, LAMBDA name : selected[r] = {} \/ name \in selected[r])

\* C6: a run never ends without returning, and what it returns is one
\* outcome per selected configured source, in configuration order, each
\* completed, skipped or failed.
C6_EverySourceReported ==
    \A r \in Runs :
        /\ pc[r] # "crashed"
        /\ pc[r] = "done" =>
              /\ Len(results[r]) = Len(SelectedSources(r))
              /\ \A i \in 1..Len(results[r]) :
                    /\ results[r][i].source = SelectedSources(r)[i]
                    /\ results[r][i].status \in
                          {"completed", "skipped", "failed"}

\* A source whose configuration lacks a parameter its loader requires.
LacksFetchParameter(cfg) ==
    \/ cfg.kind = "kaggle_imdb" /\ (~cfg.dataset_id \/ ~cfg.file_name)
    \/ cfg.kind = "csv_local" /\ ~cfg.input_path

\* C7: the ingestion of a source whose configuration lacks a required fetch
\* parameter ends failed with no I/O performed and no ledger record.
C7_ConfigErrorBeforeIO ==
    \A r \in Runs :
        (pc[r] = "ret" /\ LacksFetchParameter(Cfg(r))) =>
            /\ cur[r].result.status = "failed"
            /\ cur[r].io = {}

\* C8: every completed ledger record points at a run directory that holds
\* the copied file and a success marker with the record's hash and rows;
\* within an ingestion the file is copied before the marker is written and
\* the marker is written before the ledger is appended to.
C8_CompletedRecordHasCopyAndMarker ==
    /\ \A i \in 1..Len(ledger) :
          ledger[i].status = "completed" =>
              LET dir == rawStore[<<ledger[i].source, ledger[i].run_id>>]
              IN  /\ dir.exists
                  /\ dir.file # NoFile
                  /\ dir.marker.hash = ledger[i].content_hash
                  /\ dir.marker.rows = ledger[i].row_count
    /\ \A r \in Runs :
          /\ pc[r] = "marker" => rawStore[Dir(r)].file # NoFile
          /\ pc[r] \in {"loaded", "write"} =>
                rawStore[Dir(r)].marker.hash = cur[r].file_hash

\* C9: once two interleaved runs have both ended, each (source, content)
\* was copied at most once, has at most one completed record, and every
\* completed outcome either run returned is a record of the ledger.
C9_ExactlyOnceUnderInterleaving ==
    (\A r \in Runs : AtRest(r)) =>
        /\ \A s \in SourceNames, h \in Digests :
              /\ copies[<<s, h>>] <= 1
              /\ CompletedCount(ledger, s, h) <= 1
        /\ \A r \in Runs : \A i \in 1..Len(results[r]) :
              results[r][i].status = "completed" =>
                  \E j \in 1..Len(ledger) : ledger[j] = results[r][i]

\* -------------------------------------------------------------------------
\* already_ingested as a function of the ledger file
\* -------------------------------------------------------------------------
\* Rows a ledger file may hold: the columns of METADATA_COLUMNS, with every
\* status of the data model.
LedgerRows ==
    { build_metadata_record(0, s, st, h, 0, 0, RawPath(s, 0)) :
        s \in {"rt_movies", "imdb_kaggle"}, st \in {"completed", "skipped",
        "failed"}, h \in Digests }

\* Ledger files of at most MaxLedgerLen rows.
LedgerFiles ==
    UNION { [1..n -> LedgerRows] : n \in 0..MaxLedgerLen }

LedgerInit ==
    /\ IngestInit
    /\ config = FullConfig
    /\ srcContent = [s \in SourceNames |-> "a"]
    /\ probe = NoProbe
    /\ EtlIdle

\* The ledger file found on disk.
LedgerPick(df) ==
    /\ ~probe.asked
    /\ ledger = <<>>
    /\ df # <<>>
    /\ ledger' = df
    /\ UNCHANGED <<config, srcContent, rawStore, clock, runsStarted, edits,
                   pc, runId, selected, idx, results, cur, ledgerAtStart,
                   copies, faults, probe, etlVars, outVars>>

\* already_ingested(source, content_hash) is called on the ledger file.
Query(source, content_hash) ==
    /\ probe' = [asked        |-> TRUE,
                 source       |-> source,
                 content_hash |-> content_hash,
                 answer       |-> already_ingested(ledger, source,
                                                   content_hash)]
    /\ UNCHANGED <<ingestVars, etlVars, outVars>>

NextLedger ==
    \/ \E df \in LedgerFiles : LedgerPick(df)
    \/ \E s \in {"rt_movies", "imdb_kaggle"}, h \in Digests : Query(s, h)

LedgerSpec == LedgerInit /\ [][NextLedger]_vars

NULL == "NULL"

\* Aggregator ids, in lexicographic order.
RtIdOrder == <<"x1", "x2">>

RtIds == {RtIdOrder[i] : i \in 1..Len(RtIdOrder)}

ImdbIds == {"tt1"}

\* A tomatoURL is text cut at its slashes, or missing.
NullUrl == [isnull |-> TRUE, path |-> <<>>]

Url(path) == [isnull |-> FALSE, path |-> path]

RtUrl(id) == Url(<<"http:", "", "www.rottentomatoes.com", "m", id, "">>)

TomatoUrls == {NullUrl, Url(<<"N", "A">>)} \cup {RtUrl(id) : id \in RtIds}

\* The first match of the pattern /m/([^/]+)/? in a text: the first piece
\* that follows a piece "m" standing between two slashes and is not empty.
\* 0 when there is none.
MatchAt(path) ==
    LET hits == {i \in 2..(Len(path) - 1) :
                    path[i] = "m" /\ path[i + 1] # ""}
    IN  IF hits = {} THEN 0
        ELSE (CHOOSE i \in hits : \A k \in hits : i <= k) + 1

\* transform.py: tomatoURL.astype(str).str.extract(...): a missing value
\* becomes the text "nan"; no match gives a missing value.
extract_rt_id(url) ==
    LET path == IF url.isnull THEN <<"nan">> ELSE url.path
    IN  IF MatchAt(path) = 0 THEN NULL ELSE path[MatchAt(path)]

\* spark_transform.py: F.regexp_extract(tomatoURL, ..., 1): null for a null
\* input, the empty string when nothing matches.
regexp_extract_rt_id(url) ==
    IF url.isnull THEN NULL
    ELSE IF MatchAt(url.path) = 0 THEN "" ELSE url.path[MatchAt(url.path)]

\* Rows of the raw tables, cut down to the columns the merge reads.
RtRows == [rt_id : RtIds \cup {NULL}, title : {"rt title"}]

ImdbRows == [imdbID : ImdbIds \cup {NULL}, tomatoURL : TomatoUrls,
             Title : {"imdb title"}]

RtTables == UNION { [1..n -> RtRows] : n \in 0..MaxRtRows }

ImdbTables == UNION { [1..n -> ImdbRows] : n \in 0..MaxImdbRows }

\* Series.fillna / F.coalesce of two columns: the first value that is not
\* missing.
coalesce(a, b) == IF a # NULL THEN a ELSE b

\* One row of the merge: rt row l and imdb row r (0: no row of that side),
\* joined on key, with the columns build_films_table and build_films
\* derive from them.
MergedRow(rt, imdb, l, r, key) ==
    LET imdbID == IF r = 0 THEN NULL ELSE imdb[r].imdbID
    IN  [l          |-> l,
         r          |-> r,
         rt_id      |-> key,
         imdb_id    |-> imdbID,
         film_id    |-> coalesce(imdbID, key),
         title      |-> coalesce(IF r = 0 THEN NULL ELSE imdb[r].Title,
                                 IF l = 0 THEN NULL ELSE rt[l].title)]

\* The positions 1..n of a table of n rows, in order.
Positions(n) == [i \in 1..n |-> i]

\* The rows an outer join gives for one key: every pair of a left and a
\* right position, left-major; the positions of one side alone when the
\* other side has none.
JoinPairs(ls, rs) ==
    IF rs = <<>> THEN [n \in 1..Len(ls) |-> <<ls[n], 0>>]
    ELSE IF ls = <<>> THEN [n \in 1..Len(rs) |-> <<0, rs[n]>>]
    ELSE [n \in 1..(Len(ls) * Len(rs)) |->
            <<ls[((n - 1) \div Len(rs)) + 1], rs[((n - 1) % Len(rs)) + 1]>>]

RECURSIVE Flatten(_)
Flatten(seqs) ==
    IF seqs = <<>> THEN <<>> ELSE Head(seqs) \o Flatten(Tail(seqs))

\* pd.merge(rt_df, imdb_df, how="outer", on="rt_id"): keys in lexicographic
\* order with the missing key last; rows whose key is missing on both
\* sides are matched with each other like any other key.
pandas_merge(rt, imdb) ==
    LET keys == SelectSeq(RtIdOrder \o <<NULL>>,
                   LAMBDA k : \/ \E i \in 1..Len(rt) : rt[i].rt_id = k
                              \/ \E j \in 1..Len(imdb) :
                                    extract_rt_id(imdb[j].tomatoURL) = k)
         rowsOf(k) ==
            LET ls == SelectSeq(Positions(Len(rt)),
                                LAMBDA i : rt[i].rt_id = k)
                rs == SelectSeq(Positions(Len(imdb)),
                         LAMBDA j : extract_rt_id(imdb[j].tomatoURL) = k)
                ps == JoinPairs(ls, rs)
            IN  [n \in 1..Len(ps) |->
                    MergedRow(rt, imdb, ps[n][1], ps[n][2], k)]
    IN  Flatten([n \in 1..Len(keys) |-> rowsOf(keys[n])])

\* films.drop_duplicates(subset=["film_id"]): the first row of each film_id
\* is kept; missing film_ids count as equal.
drop_duplicates_film_id(rows) ==
    LET first(i) == \A k \in 1..(i - 1) : rows[k].film_id # rows[i].film_id
        kept == SelectSeq(Positions(Len(rows)), first)
    IN  [n \in 1..Len(kept) |-> rows[kept[n]]]

\* build_films_table, from the merge on.
build_films_table(rt, imdb) == drop_duplicates_film_id(pandas_merge(rt, imdb))

\* rt_df.join(imdb_df, on="rt_id", how="outer"): rows whose key is null on
\* either side match nothing; the joined rt_id is the key of the side that
\* is present.  A DataFrame has no row order: the rows are a set.
spark_join(rt, imdb) ==
    LET rkey(j) == regexp_extract_rt_id(imdb[j].tomatoURL)
        match(i, j) == rt[i].rt_id # NULL /\ rt[i].rt_id = rkey(j)
    IN  {MergedRow(rt, imdb, p[1], p[2], rt[p[1]].rt_id) :
            p \in {q \in (1..Len(rt)) \X (1..Len(imdb)) : match(q[1], q[2])}}
        \cup
        {MergedRow(rt, imdb, i, 0, rt[i].rt_id) :
            i \in {k \in 1..Len(rt) : \A j \in 1..Len(imdb) : ~match(k, j)}}
        \cup
        {MergedRow(rt, imdb, 0, j, rkey(j)) :
            j \in {k \in 1..Len(imdb) : \A i \in 1..Len(rt) : ~match(i, k)}}

\* The results drop_duplicates(["film_id"]) may give: for each film_id one
\* of the rows that carry it, whichever the engine met first.
spark_drop_duplicates(rows) ==
    LET ids == {row.film_id : row \in rows}
        picks == {f \in [ids -> rows] : \A id \in ids : f[id].film_id = id}
    IN  {{f[id] : id \in ids} : f \in picks}

\* The Film tables build_films may return.
build_films(rt, imdb) == spark_drop_duplicates(spark_join(rt, imdb))

EtlInit ==
    /\ IngestInit
    /\ config = FullConfig
    /\ srcContent = [s \in SourceNames |-> "a"]
    /\ probe = NoProbe
    /\ rtTable \in RtTables
    /\ imdbTable \in ImdbTables
    /\ films = <<>>
    /\ sparkFilms = {}
    /\ built = {}
    /\ OutIdle
    /\ call = NoCall

\* transform.py builds the Film table from the two raw tables.
BuildFilmsTable ==
    /\ "pandas" \notin built
    /\ films' = build_films_table(rtTable, imdbTable)
    /\ built' = built \cup {"pandas"}
    /\ UNCHANGED <<ingestVars, outVars, probe, rtTable, imdbTable,
                   sparkFilms, call>>

\* spark_transform.py builds the Film table from the two raw tables.
BuildFilms ==
    /\ "spark" \notin built
    /\ sparkFilms' \in build_films(rtTable, imdbTable)
    /\ built' = built \cup {"spark"}
    /\ UNCHANGED <<ingestVars, outVars, probe, rtTable, imdbTable,
                   films, call>>

NextEtl ==
    \/ BuildFilmsTable
    \/ BuildFilms

EtlSpec == EtlInit /\ [][NextEtl]_vars

\* The aggregator ids that both raw tables know, as transform.py reads them.
InBothSources ==
    {k \in RtIds :
        /\ \E i \in 1..Len(rtTable) : rtTable[i].rt_id = k
        /\ \E j \in 1..Len(imdbTable) :
              extract_rt_id(imdbTable[j].tomatoURL) = k}

\* The same ids as spark_transform.py reads them.
InBothSourcesSpark ==
    {k \in RtIds :
        /\ \E i \in 1..Len(rtTable) : rtTable[i].rt_id = k
        /\ \E j \in 1..Len(imdbTable) :
              regexp_extract_rt_id(imdbTable[j].tomatoURL) = k}

\* The rows of a table given as a sequence.
RowSet(rows) == {rows[i] : i \in 1..Len(rows)}

\* A Film table holds exactly one row for each film_id of the merge, and no
\* aggregator-only or catalog-only row for a film of the given ids.
OneRowPerFilm(out, merged, ids) ==
    /\ {row.film_id : row \in out} = {row.film_id : row \in merged}
    /\ \A a, b \in out : a.film_id = b.film_id => a = b
    /\ \A row \in out : row.rt_id \in ids => (row.l > 0 /\ row.r > 0)

\* Each Film table, of transform.py and of spark_transform.py, holds exactly
\* one row per film_id value of the merge (a missing film_id counting as one
\* value), and no film known to both sources is left as an aggregator-only
\* or a catalog-only row.
FilmIdUnique ==
    /\ "pandas" \in built =>
          /\ Len(films) = Cardinality(RowSet(films))
          /\ OneRowPerFilm(RowSet(films),
                           RowSet(pandas_merge(rtTable, imdbTable)),
                           InBothSources)
    /\ "spark" \in built =>
          OneRowPerFilm(sparkFilms, spark_join(rtTable, imdbTable),
                        InBothSourcesSpark)

\* C10 witness: both tables are built from sources that share a film, and
\* deduplication removed rows of the merge.
C10_Witness ==
    /\ built = {"pandas", "spark"}
    /\ InBothSources # {}
    /\ Len(films) < Len(pandas_merge(rtTable, imdbTable))
    /\ Cardinality(sparkFilms)
          < Cardinality(spark_join(rtTable, imdbTable))

\* C10: for every pair of source tables the Film table holds exactly one
\* row per film_id value, and every film whose aggregator id appears in both
\* sources has its merged row in the Film table.
C10_SharedFilmHasMergedRow ==
    /\ FilmIdUnique
    /\ "pandas" \in built =>
          \A k \in InBothSources :
              \E row \in RowSet(films) :
                  row.rt_id = k /\ row.l > 0 /\ row.r > 0
    /\ "spark" \in built =>
          \A k \in InBothSourcesSpark :
              \E row \in sparkFilms :
                  row.rt_id = k /\ row.l > 0 /\ row.r > 0

\* Two keys of the merge denote the same film: equal and not missing.
SameKey(a, b) == a # NULL /\ a = b

\* The columns of a Film row (l and r only record where it came from).
Content(row) == [rt_id |-> row.rt_id, imdb_id |-> row.imdb_id,
                 film_id |-> row.film_id, title |-> row.title]

\* The Film row of aggregator row i alone, and of catalog row j alone with
\* the key read from it.
RtAlone(i) == Content(MergedRow(rtTable, imdbTable, i, 0, rtTable[i].rt_id))

ImdbAlone(j, key) == Content(MergedRow(rtTable, imdbTable, 0, j, key))

\* C11: the merge is a full outer join: every aggregator row whose rt_id
\* matches no catalog row, and every catalog row whose extracted rt_id
\* matches no aggregator row (or that has none), is in the Film table with
\* its own fields and none of the other source.
C11_UnmatchedRowsKept ==
    /\ "pandas" \in built =>
          /\ \A i \in 1..Len(rtTable) :
                (\A j \in 1..Len(imdbTable) :
                    ~SameKey(rtTable[i].rt_id,
                             extract_rt_id(imdbTable[j].tomatoURL)))
                => \E row \in RowSet(films) : Content(row) = RtAlone(i)
          /\ \A j \in 1..Len(imdbTable) :
                LET key == extract_rt_id(imdbTable[j].tomatoURL)
                IN  (\A i \in 1..Len(rtTable) :
                        ~SameKey(rtTable[i].rt_id, key))
                    => \E row \in RowSet(films) :
                          Content(row) = ImdbAlone(j, key)
    /\ "spark" \in built =>
          /\ \A i \in 1..Len(rtTable) :
                (\A j \in 1..Len(imdbTable) :
                    ~SameKey(rtTable[i].rt_id,
                             regexp_extract_rt_id(imdbTable[j].tomatoURL)))
                => \E row \in sparkFilms : Content(row) = RtAlone(i)
          /\ \A j \in 1..Len(imdbTable) :
                LET key == regexp_extract_rt_id(imdbTable[j].tomatoURL)
                IN  (\A i \in 1..Len(rtTable) :
                        ~SameKey(rtTable[i].rt_id, key))
                    => \E row \in sparkFilms :
                          Content(row) = ImdbAlone(j, key)

\* C11 witness: transform.py has built the Film table from an aggregator
\* row without id and a catalog row without extractable id, which are the
\* only rows of their tables.
C11_Witness ==
    /\ "pandas" \in built
    /\ Len(rtTable) = 1 /\ rtTable[1].rt_id = NULL
    /\ Len(imdbTable) = 1
    /\ extract_rt_id(imdbTable[1].tomatoURL) = NULL
    /\ imdbTable[1].imdbID # NULL
    /\ Len(films) = 1

\* C14: the row deduplication retains is determined by the two source
\* tables: in transform.py it is the first row of its film_id in the
\* merge's order, and in spark_transform.py every execution on the same
\* tables gives the Film table that this one gave.
C14_DedupDeterministic ==
    /\ "pandas" \in built =>
          LET merged == pandas_merge(rtTable, imdbTable)
          IN  \A n \in 1..Len(films) :
                \E m \in 1..Len(merged) :
                    /\ merged[m] = films[n]
                    /\ \A k \in 1..(m - 1) :
                          merged[k].film_id # films[n].film_id
    /\ "spark" \in built =>
          \A other \in build_films(rtTable, imdbTable) :
              {Content(row) : row \in other}
                  = {Content(row) : row \in sparkFilms}

\* C14 witness: spark_transform.py has built a Film table from which
\* deduplication removed a row.
C14_Witness ==
    /\ "spark" \in built
    /\ Cardinality(sparkFilms) < Cardinality(spark_join(rtTable, imdbTable))

\* -------------------------------------------------------------------------
\* Numbers (Python float, Spark double)
\* -------------------------------------------------------------------------
RECURSIVE GCD(_, _)
GCD(a, b) == IF b = 0 THEN a ELSE GCD(b, a % b)

Abs(n) == IF n < 0 THEN 0 - n ELSE n

\* A missing number: None, NaN or a SQL null.
NullNum == [kind |-> "null", n |-> 0, d |-> 1]

\* The number n/d (d > 0), in lowest terms.
Num(n, d) ==
    LET g == GCD(Abs(n), d)
    IN  [kind |-> "num", n |-> n \div g, d |-> d \div g]

\* float("inf").
Inf == [kind |-> "inf", n |-> 1, d |-> 1]

\* -------------------------------------------------------------------------
\* Field resolution of a merged row (transform.py, spark_transform.py)
\* -------------------------------------------------------------------------
\* A genre text is missing or a list of tokens between commas; a token may
\* be padded with blanks.
NullGenre == [isnull |-> TRUE, tokens |-> <<>>]

Token(pad, word) == [isnull |-> FALSE, pad |-> pad, word |-> word]

NullToken == [isnull |-> TRUE, pad |-> FALSE, word |-> ""]

GenreTexts ==
    { NullGenre,
      [isnull |-> FALSE,
       tokens |-> <<Token(TRUE, "Drama"), Token(FALSE, "Comedy")>>] }

\* A release date is missing or a timestamp, of which only the year counts.
NullDate == [isnull |-> TRUE, year |-> 0]

Dates == {NullDate, [isnull |-> FALSE, year |-> 1999]}

Minutes == {NullNum} \cup {Num(m, 1) : m \in 0..MaxMinutes}

Dollars == {NullNum} \cup {Num(u, 1) : u \in 0..MaxUsd}

\* The aggregator's and the catalog's columns of a merged row, after the
\* loaders' parsing; a side that has no row in the merge has every column
\* missing.
RtFields ==
    [rt_id : {NULL, "x1"}, title_rt : {NULL, "rt title"},
     runtime_minutes_rt : Minutes, box_office_usd_rt : Dollars,
     releaseDateTheaters_rt : Dates, genre : GenreTexts]

ImdbFields ==
    [imdbID : {NULL, "tt1"}, title_imdb : {NULL, "imdb title"},
     runtime_minutes_imdb : Minutes, box_office_usd_imdb : Dollars,
     year_imdb : {NullNum, Num(2001, 1)}, Genre : GenreTexts]

\* A fillna that prefers its second argument.
fillna_second_first(a, b) == IF b.kind # "null" THEN b ELSE a

\* Series.fillna / F.coalesce on numbers.
fillna(a, b) == IF a.kind # "null" THEN a ELSE b

\* .dt.year / F.year.
dt_year(date) == IF date.isnull THEN NullNum ELSE Num(date.year, 1)

\* str.strip of a token.
strip_token(token) == [token EXCEPT !.pad = FALSE]

\* genre.str.split(",").str[0].str.strip()
first_genre(genre) ==
    IF genre.isnull THEN NullToken ELSE strip_token(Head(genre.tokens))

\* F.split(genre, ",").getItem(0)
spark_first_genre(genre) ==
    IF genre.isnull THEN NullToken ELSE Head(genre.tokens)

\* Series / Series on float64: a missing operand gives NaN, 0/0 gives NaN
\* (pandas' missing value), x/0 gives inf.
pandas_divide(a, b) ==
    IF a.kind = "null" \/ b.kind = "null" THEN NullNum
    ELSE IF b.n = 0 THEN (IF a.n = 0 THEN NullNum ELSE Inf)
    ELSE Num(a.n * b.d, a.d * b.n)

\* Column / Column in Spark SQL: null for a null operand and for a zero
\* divisor.
spark_divide(a, b) ==
    IF a.kind = "null" \/ b.kind = "null" \/ b.n = 0 THEN NullNum
    ELSE Num(a.n * b.d, a.d * b.n)

\* fillna with a token.
fillna_token(a, b) == IF ~a.isnull THEN a ELSE b

\* build_films_table, lines 195 to 211: the resolved columns of one row.
resolve_fields(rt, imdb) ==
    LET runtime == fillna(imdb.runtime_minutes_imdb, rt.runtime_minutes_rt)
        box     == fillna(imdb.box_office_usd_imdb, rt.box_office_usd_rt)
    IN  [film_id            |-> coalesce(imdb.imdbID, rt.rt_id),
         title              |-> coalesce(imdb.title_imdb, rt.title_rt),
         runtime_minutes    |-> runtime,
         box_office_usd     |-> box,
         year               |-> fillna(imdb.year_imdb,
                                       dt_year(rt.releaseDateTheaters_rt)),
         revenue_per_minute |-> pandas_divide(box, runtime),
         primary_genre      |-> fillna_token(first_genre(rt.genre),
                                             first_genre(imdb.Genre))]

\* build_films, lines 273 to 296.
spark_resolve_fields(rt, imdb) ==
    LET runtime == fillna(imdb.runtime_minutes_imdb, rt.runtime_minutes_rt)
        box     == fillna(imdb.box_office_usd_imdb, rt.box_office_usd_rt)
    IN  [film_id            |-> coalesce(imdb.imdbID, rt.rt_id),
         title              |-> coalesce(imdb.title_imdb, rt.title_rt),
         runtime_minutes    |-> runtime,
         box_office_usd     |-> box,
         year               |-> fillna(imdb.year_imdb,
                                       dt_year(rt.releaseDateTheaters_rt)),
         revenue_per_minute |-> spark_divide(box, runtime),
         primary_genre      |-> fillna_token(spark_first_genre(rt.genre),
                                             spark_first_genre(imdb.Genre))]

\* The merged row whose columns are to be resolved.
FieldInit ==
    /\ IngestInit
    /\ config = FullConfig
    /\ srcContent = [s \in SourceNames |-> "a"]
    /\ probe = NoProbe
    /\ rtTable = <<>>
    /\ imdbTable = <<>>
    /\ films = <<>>
    /\ sparkFilms = {}
    /\ built = {}
    /\ OutIdle
    /\ \E rt \in RtFields, imdb \in ImdbFields :
          call = [op |-> "merged", rt |-> rt, imdb |-> imdb]

\* transform.py resolves the columns of the merged row.
ResolveFields ==
    /\ call.op = "merged"
    /\ call' = [op |-> "build_films_table", rt |-> call.rt,
                imdb |-> call.imdb,
                out |-> resolve_fields(call.rt, call.imdb)]
    /\ UNCHANGED <<ingestVars, outVars, probe, rtTable, imdbTable,
                   films, sparkFilms,                   built>>

\* spark_transform.py resolves the columns of the merged row.
SparkResolveFields ==
    /\ call.op = "merged"
    /\ call' = [op |-> "build_films", rt |-> call.rt, imdb |-> call.imdb,
                out |-> spark_resolve_fields(call.rt, call.imdb)]
    /\ UNCHANGED <<ingestVars, outVars, probe, rtTable, imdbTable,
                   films, sparkFilms,                   built>>

NextField ==
    \/ ResolveFields
    \/ SparkResolveFields

FieldSpec == FieldInit /\ [][NextField]_vars

Resolved == call.op \in {"build_films_table", "build_films"}

\* The first of two texts that is not missing.
FirstText(a, b) == IF a # NULL THEN a ELSE b

\* The first of two numbers that is not missing.
FirstNum(a, b) == IF a.kind = "num" THEN a ELSE b

\* The first token of a genre text, without the blanks around it.
FirstWord(genre) == IF genre.isnull THEN "" ELSE Head(genre.tokens).word

\* C12: every resolved field of a merged row is the first non-missing value
\* of its priority list: catalog before aggregator for film_id, title,
\* runtime_minutes, box_office_usd and year (the aggregator's year being
\* that of its theatrical release date), aggregator before catalog for
\* primary_genre (the first token of the genre list).
C12_FirstNonNullWins ==
    Resolved =>
        LET rt == call.rt  imdb == call.imdb  out == call.out
        IN  /\ out.film_id = FirstText(imdb.imdbID, rt.rt_id)
            /\ out.title = FirstText(imdb.title_imdb, rt.title_rt)
            /\ out.runtime_minutes
                  = FirstNum(imdb.runtime_minutes_imdb, rt.runtime_minutes_rt)
            /\ out.box_office_usd
                  = FirstNum(imdb.box_office_usd_imdb, rt.box_office_usd_rt)
            /\ out.year
                  = FirstNum(imdb.year_imdb,
                             IF rt.releaseDateTheaters_rt.isnull THEN NullNum
                             ELSE Num(rt.releaseDateTheaters_rt.year, 1))
            /\ out.primary_genre.isnull
                  = (rt.genre.isnull /\ imdb.Genre.isnull)
            /\ out.primary_genre.word
                  = (IF ~rt.genre.isnull THEN FirstWord(rt.genre)
                     ELSE FirstWord(imdb.Genre))

\* C12 witness: a row known to both sources, with both runtimes and both
\* genres present, has been resolved by spark_transform.py.
C12_Witness ==
    /\ call.op = "build_films"
    /\ call.rt.rt_id # NULL /\ call.imdb.imdbID # NULL
    /\ call.rt.runtime_minutes_rt.kind = "num"
    /\ call.imdb.runtime_minutes_imdb.kind = "num"
    /\ call.rt.runtime_minutes_rt # call.imdb.runtime_minutes_imdb
    /\ ~call.rt.genre.isnull /\ ~call.imdb.Genre.isnull
    /\ call.imdb.year_imdb.kind = "null"
    /\ ~call.rt.releaseDateTheaters_rt.isnull

\* C13: revenue_per_minute is box_office_usd / runtime_minutes when both
\* are present and runtime_minutes is not zero, and missing otherwise; it
\* is never infinite.
C13_RevenuePerMinuteGuarded ==
    Resolved =>
        LET box == call.out.box_office_usd
            runtime == call.out.runtime_minutes
            rpm == call.out.revenue_per_minute
        IN  IF box.kind = "num" /\ runtime.kind = "num" /\ runtime.n # 0
            THEN /\ rpm.kind = "num"
                 /\ rpm.n * runtime.n * box.d = box.n * runtime.d * rpm.d
            ELSE rpm.kind = "null"

\* C13 witness: transform.py has resolved a row whose runtime is zero and
\* whose box office is not.
C13_Witness ==
    /\ call.op = "build_films_table"
    /\ call.out.runtime_minutes = Num(0, 1)
    /\ call.out.box_office_usd.kind = "num"
    /\ call.out.box_office_usd.n > 0

\* -------------------------------------------------------------------------
\* Text (Python str): a sequence of one-character strings
\* -------------------------------------------------------------------------
Digits == <<"0", "1", "2", "3", "4", "5", "6", "7", "8", "9">>

IsDigit(c) == \E k \in 1..Len(Digits) : Digits[k] = c

DigitVal(c) == (CHOOSE k \in 1..Len(Digits) : Digits[k] = c) - 1

\* The number a run of digits writes.
RECURSIVE DigitsValue(_)
DigitsValue(ds) ==
    IF ds = <<>> THEN 0
    ELSE DigitsValue(SubSeq(ds, 1, Len(ds) - 1)) * 10 + DigitVal(ds[Len(ds)])

RECURSIVE Pow10(_)
Pow10(k) == IF k = 0 THEN 1 ELSE 10 * Pow10(k - 1)

\* str.strip(): the text without its leading and trailing blanks.
strip(text) ==
    LET inked == {i \in 1..Len(text) : text[i] # " "}
    IN  IF inked = {} THEN <<>>
        ELSE SubSeq(text, CHOOSE i \in inked : \A k \in inked : i <= k,
                          CHOOSE i \in inked : \A k \in inked : i >= k)

\* str.replace(c, ""): the text without its occurrences of c.
remove(text, c) == SelectSeq(text, LAMBDA x : x # c)

\* str.endswith(c), for a single character c.
endswith(text, c) == text # <<>> /\ text[Len(text)] = c

\* What float() raises on text that is not a number.
ValueError == [kind |-> "ValueError", n |-> 0, d |-> 1]

\* float(text): blanks around the text are ignored; then an optional sign
\* and decimal digits with at most one point and at least one digit.  (The
\* other spellings float() takes: exponents, underscores, inf, nan, need
\* characters no raw text of the model holds.)
pyfloat(text) ==
    LET t      == strip(text)
        signed == t # <<>> /\ t[1] \in {"-", "+"}
        body   == IF signed THEN SubSeq(t, 2, Len(t)) ELSE t
        points == {i \in 1..Len(body) : body[i] = "."}
        digits == remove(body, ".")
        fracs  == IF points = {} THEN 0
                  ELSE Len(body) - (CHOOSE i \in points : TRUE)
        value  == DigitsValue(digits)
    IN  IF \/ digits = <<>>
           \/ Cardinality(points) > 1
           \/ \E i \in 1..Len(digits) : ~IsDigit(digits[i])
        THEN ValueError
        ELSE Num(IF signed /\ t[1] = "-" THEN 0 - value ELSE value,
                 Pow10(fracs))

\* The decimal digits of a natural number.
RECURSIVE IntDigits(_)
IntDigits(n) ==
    IF n < 10 THEN <<Digits[n + 1]>>
    ELSE IntDigits(n \div 10) \o <<Digits[(n % 10) + 1]>>

\* The digits after the point of r/d (r < d), for a fraction that ends.
RECURSIVE FracDigits(_, _)
FracDigits(r, d) ==
    IF r = 0 THEN <<>>
    ELSE <<Digits[((r * 10) \div d) + 1]>> \o FracDigits((r * 10) % d, d)

\* The fraction n/d has a decimal expansion that ends within six digits.
Terminating(v) == v.kind = "num" /\ Pow10(6) % v.d = 0

\* repr(float) of a number below 1e16 whose expansion ends: sign, integer
\* digits, point, and the fraction digits or a single 0.
Repr(v) ==
    LET whole == Abs(v.n) \div v.d
        rest  == Abs(v.n) % v.d
    IN  (IF v.n < 0 THEN <<"-">> ELSE <<>>)
        \o IntDigits(whole) \o <<".">>
        \o (IF rest = 0 THEN <<"0">> ELSE FracDigits(rest, v.d))

\* The end of the longest run of digits that starts at position i.
DigitRunEnd(text, i) ==
    LET ends == {k \in i..Len(text) :
                    \A m \in i..k : IsDigit(text[m])}
    IN  CHOOSE k \in ends : \A e \in ends : k >= e

\* The end of the match of \d+(?:\.\d+)? at position i, 0 when there is
\* no match.
DecimalEnd(text, i) ==
    IF i > Len(text) \/ ~IsDigit(text[i]) THEN 0
    ELSE LET e == DigitRunEnd(text, i)
         IN  IF e + 2 <= Len(text) /\ text[e + 1] = "."
                  /\ IsDigit(text[e + 2])
             THEN DigitRunEnd(text, e + 2)
             ELSE e

\* -------------------------------------------------------------------------
\* Field normalizers (transform.py, spark_transform.py)
\* -------------------------------------------------------------------------
\* A raw value: missing (None or NaN), a number, or text.
NullInput == [kind |-> "null", text |-> <<>>, n |-> 0, d |-> 1]

NumInput(n, d) == [kind |-> "num", text |-> <<>>, n |-> n, d |-> d]

TextInput(text) == [kind |-> "text", text |-> text, n |-> 0, d |-> 1]

NA == <<"N", "/", "A">>

\* value in (None, "", "N/A") or value is NaN
is_missing(value) ==
    \/ value.kind = "null"
    \/ value.kind = "text" /\ value.text \in {<<>>, NA}

\* float(text) * multiplier inside try / except ValueError: None on error.
float_or_none(text, multiplier) ==
    LET f == pyfloat(text)
    IN  IF f.kind = "ValueError" THEN NullNum
        ELSE Num(f.n * multiplier, f.d)

\* The steps of parse_currency on text: strip, drop the commas, take the
\* M or K suffix as multiplier, drop the dollar signs, float().
currency_of_text(text) ==
    LET val == remove(strip(text), ",")
        cut == SubSeq(val, 1, Len(val) - 1)
    IN  IF endswith(val, "M")
            THEN float_or_none(remove(cut, "$"), 1000000)
        ELSE IF endswith(val, "K")
            THEN float_or_none(remove(cut, "$"), 1000)
        ELSE float_or_none(remove(val, "$"), 1)

\* transform.py parse_currency.
parse_currency(value) ==
    IF is_missing(value) THEN NullNum
    ELSE IF value.kind = "num" THEN Num(value.n, value.d)
    ELSE currency_of_text(value.text)

\* str(value) of a raw value that is not missing.
str(value) == IF value.kind = "num" THEN Repr(value) ELSE value.text

\* re.search(r"(\d+)", text), then float of the group: the first run of
\* digits of the text.
runtime_of_text(text) ==
    LET starts == {i \in 1..Len(text) : IsDigit(text[i])}
        first  == CHOOSE i \in starts : \A k \in starts : i <= k
    IN  IF starts = {} THEN NullNum
        ELSE pyfloat(SubSeq(text, first, DigitRunEnd(text, first)))

\* transform.py parse_runtime.
parse_runtime(value) ==
    IF is_missing(value) THEN NullNum
    ELSE IF value.kind = "num" THEN Num(value.n, value.d)
    ELSE runtime_of_text(str(value))

\* GRADE_MAP / letter_scale, in tenths of a point; -1 for a text that is
\* no grade.
GRADE_MAP(text) ==
    CASE text = <<"A", "+">> -> 40
      [] text = <<"A">>      -> 40
      [] text = <<"A", "-">> -> 37
      [] text = <<"B", "+">> -> 33
      [] text = <<"B">>      -> 30
      [] text = <<"B", "-">> -> 27
      [] text = <<"C", "+">> -> 23
      [] text = <<"C">>      -> 20
      [] text = <<"C", "-">> -> 17
      [] text = <<"D", "+">> -> 13
      [] text = <<"D">>      -> 10
      [] text = <<"D", "-">> -> 7
      [] text = <<"F">>      -> 0
      [] OTHER               -> 0 - 1

\* num / den of two numbers, None for a zero denominator.
ratio_or_none(num, den) ==
    IF den.n = 0 THEN NullNum ELSE Num(num.n * den.d, num.d * den.n)

\* The grade or the bare number of a text: the last two branches of
\* normalize_review_score and of normalize_score.
grade_or_float(text) ==
    IF GRADE_MAP(text) >= 0 THEN Num(GRADE_MAP(text), 40)
    ELSE float_or_none(text, 1)

\* transform.py normalize_review_score: re.match of num/den at the start
\* of the stripped text, then the grades, then float().
normalize_review_score(value) ==
    IF value.kind = "null" THEN NullNum
    ELSE
      LET text   == strip(str(value))
          numEnd == DecimalEnd(text, 1)
          slash  == numEnd > 0 /\ numEnd < Len(text)
                      /\ text[numEnd + 1] = "/"
          denEnd == IF slash THEN DecimalEnd(text, numEnd + 2) ELSE 0
      IN  IF text = <<>> \/ text = NA THEN NullNum
          ELSE IF denEnd > 0
              THEN ratio_or_none(pyfloat(SubSeq(text, 1, numEnd)),
                                 pyfloat(SubSeq(text, numEnd + 2, denEnd)))
          ELSE grade_or_float(text)

\* if not value or value == "N/A", in the Spark functions (value is text
\* or null: the CSV reader gives every column as string).
spark_is_missing(value) ==
    value.kind = "null" \/ value.text = <<>> \/ value.text = NA

\* spark_transform.py parse_currency.
spark_parse_currency(value) ==
    IF spark_is_missing(value) THEN NullNum
    ELSE currency_of_text(value.text)

\* spark_transform.py parse_runtime: float() of the digits and points of
\* the text, outside any try.
spark_parse_runtime(value) ==
    LET digits == SelectSeq(value.text, LAMBDA ch : IsDigit(ch) \/ ch = ".")
    IN  IF spark_is_missing(value) THEN NullNum
        ELSE IF digits = <<>> THEN NullNum
        ELSE pyfloat(digits)

\* spark_transform.py normalize_score: text.split("/", 1) when the text
\* holds a slash, float() of both parts inside try.
normalize_score(value) ==
    LET text    == strip(value.text)
        slashes == {i \in 1..Len(text) : text[i] = "/"}
        cutAt   == CHOOSE i \in slashes : \A k \in slashes : i <= k
        num     == pyfloat(SubSeq(text, 1, cutAt - 1))
        den     == pyfloat(SubSeq(text, cutAt + 1, Len(text)))
    IN  IF spark_is_missing(value) THEN NullNum
        ELSE IF slashes # {}
            THEN IF num.kind = "ValueError" \/ den.kind = "ValueError"
                 THEN NullNum
                 ELSE ratio_or_none(num, den)
        ELSE grade_or_float(text)

\* The characters of raw texts.
Chars == {"0", "1", "2", ".", "/", "M", "A", "-", " "}

Texts == UNION { [1..n -> Chars] : n \in 0..MaxTextLen }

\* The raw values given to the normalizers.
RawValues ==
    {NullInput, NumInput(0, 1), NumInput(2, 1), NumInput(3, 2),
     NumInput(0 - 1, 1)}
    \cup {TextInput(t) : t \in Texts}

\* The normalizers of transform.py, which take text, numbers and missing
\* values, and those of spark_transform.py, which take strings and nulls.
PandasNormalizers ==
    {"parse_currency", "parse_runtime", "normalize_review_score"}

SparkNormalizers ==
    {"spark_parse_currency", "spark_parse_runtime", "normalize_score"}

\* The result of normalizer op on a raw value.
Normalize(op, value) ==
    CASE op = "parse_currency"         -> parse_currency(value)
      [] op = "parse_runtime"          -> parse_runtime(value)
      [] op = "normalize_review_score" -> normalize_review_score(value)
      [] op = "spark_parse_currency"   -> spark_parse_currency(value)
      [] op = "spark_parse_runtime"    -> spark_parse_runtime(value)
      [] op = "normalize_score"        -> normalize_score(value)

\* The normalized value has not been normalized again.
Pending == [kind |-> "pending", n |-> 0, d |-> 1]

NormInit ==
    /\ IngestInit
    /\ config = FullConfig
    /\ srcContent = [s \in SourceNames |-> "a"]
    /\ probe = NoProbe
    /\ rtTable = <<>>
    /\ imdbTable = <<>>
    /\ films = <<>>
    /\ sparkFilms = {}
    /\ built = {}
    /\ OutIdle
    /\ \E value \in RawValues : call = [op |-> "raw", arg |-> value]

\* A normalizer of transform.py is applied to the raw value.
ApplyNormalizer(op) ==
    /\ call.op = "raw"
    /\ call' = [op |-> op, arg |-> call.arg,
                ret |-> Normalize(op, call.arg), again |-> Pending]
    /\ UNCHANGED <<ingestVars, outVars, probe, rtTable, imdbTable,
                   films, sparkFilms,                   built>>

\* A normalizer of spark_transform.py is applied to the raw string.
ApplySparkNormalizer(op) ==
    /\ call.op = "raw"
    /\ call.arg.kind # "num"
    /\ call' = [op |-> op, arg |-> call.arg,
                ret |-> Normalize(op, call.arg), again |-> Pending]
    /\ UNCHANGED <<ingestVars, outVars, probe, rtTable, imdbTable,
                   films, sparkFilms,                   built>>

\* The normalized value is written as text and normalized again by the
\* same normalizer.
Renormalize ==
    /\ call.op \in PandasNormalizers \cup SparkNormalizers
    /\ Terminating(call.ret)
    /\ call.again = Pending
    /\ call' = [call EXCEPT
                   !.again = Normalize(call.op, TextInput(Repr(call.ret)))]
    /\ UNCHANGED <<ingestVars, outVars, probe, rtTable, imdbTable,
                   films, sparkFilms,                   built>>

NextNorm ==
    \/ \E op \in PandasNormalizers : ApplyNormalizer(op)
    \/ \E op \in SparkNormalizers : ApplySparkNormalizer(op)
    \/ Renormalize

NormSpec == NormInit /\ [][NextNorm]_vars

Normalized == call.op \in PandasNormalizers \cup SparkNormalizers

\* C15: every normalizer returns a value or null for every raw value and
\* never raises.
C15_NormalizersTotal ==
    Normalized => call.ret.kind \in {"num", "null"}

\* C15 witness: the Spark runtime parser has been applied to a text that
\* holds points and no digit.
C15_Witness ==
    /\ call.op = "spark_parse_runtime"
    /\ call.arg.kind = "text"
    /\ call.arg.text # <<>>
    /\ \A i \in 1..Len(call.arg.text) : call.arg.text[i] = "."

\* C16: normalizing the text form of a normalized value gives the same
\* value again.
C16_IdempotentOverText ==
    (Normalized /\ call.again # Pending) => call.again = call.ret

\* C16 witness: parse_runtime has been applied again to the text form of
\* its result on a number that is not whole.
C16_Witness ==
    /\ call.op = "parse_runtime"
    /\ call.arg.kind = "num" /\ call.arg.d # 1
    /\ call.again # Pending

\* C18: the score_ratio normalized from a raw originalScore is missing or
\* lies between 0 and 1.
C18_ScoreRatioInUnitInterval ==
    (call.op \in {"normalize_review_score", "normalize_score"}
        /\ call.ret.kind # "null")
    => /\ call.ret.kind = "num"
       /\ 0 <= call.ret.n
       /\ call.ret.n <= call.ret.d

\* C18 witness: both score normalizers have results above 1 for a bare
\* number; here the one of transform.py.
C18_Witness ==
    /\ call.op = "normalize_review_score"
    /\ call.arg = TextInput(<<"2">>)
    /\ call.ret = Num(2, 1)

\* -------------------------------------------------------------------------
\* is_top_critic (transform.py build_reviews_table, spark_transform.py
\* safe_boolean)
\* -------------------------------------------------------------------------
UpperCase == <<"A", "B", "C", "D", "E", "F", "G", "H", "I", "J", "K", "L",
               "M", "N", "O", "P", "Q", "R", "S", "T", "U", "V", "W", "X",
               "Y", "Z">>

LowerCase == <<"a", "b", "c", "d", "e", "f", "g", "h", "i", "j", "k", "l",
               "m", "n", "o", "p", "q", "r", "s", "t", "u", "v", "w", "x",
               "y", "z">>

\* str.lower / F.lower.
lower(text) ==
    [i \in 1..Len(text) |->
        IF \E k \in 1..26 : UpperCase[k] = text[i]
        THEN LowerCase[CHOOSE k \in 1..26 : UpperCase[k] = text[i]]
        ELSE text[i]]

\* A cell of the raw isTopCritic column: empty, or text.
NullCell == [isnull |-> TRUE, text |-> <<>>]

Cell(text) == [isnull |-> FALSE, text |-> text]

TopCriticCells ==
    { NullCell,
      Cell(<<"T", "r", "u", "e">>), Cell(<<"F", "a", "l", "s", "e">>),
      Cell(<<"1">>), Cell(<<"0">>),
      Cell(<<"Y", "e", "s">>), Cell(<<"n", "o">>),
      Cell(<<"y">>), Cell(<<"N">>),
      Cell(<<"m", "a", "y", "b", "e">>) }

TopCriticColumns ==
    UNION { [1..n -> TopCriticCells] : n \in 1..MaxReviewRows }

\* The spellings pd.read_csv takes for booleans.
csv_true_values == {<<"T", "r", "u", "e">>, <<"T", "R", "U", "E">>,
                    <<"t", "r", "u", "e">>}

csv_false_values == {<<"F", "a", "l", "s", "e">>,
                     <<"F", "A", "L", "S", "E">>,
                     <<"f", "a", "l", "s", "e">>}

\* The type pd.read_csv gives a column: numbers when every cell that is not
\* empty is a number, booleans when every such cell spells a boolean, text
\* otherwise.  Empty cells are NaN in every case.
read_csv_dtype(cells) ==
    LET texts == {cells[i].text : i \in {k \in 1..Len(cells) :
                                            ~cells[k].isnull}}
    IN  IF \A t \in texts : pyfloat(t).kind = "num" THEN "number"
        ELSE IF texts \subseteq (csv_true_values \cup csv_false_values)
            THEN "bool"
        ELSE "object"

\* df["isTopCritic"].astype(bool): bool() of every cell: NaN is true, a
\* number is true unless zero, text is true unless empty.
astype_bool(cells) ==
    LET dtype == read_csv_dtype(cells)
    IN  [i \in 1..Len(cells) |->
            IF cells[i].isnull THEN "true"
            ELSE IF dtype = "number"
                THEN (IF pyfloat(cells[i].text).n # 0 THEN "true"
                      ELSE "false")
            ELSE IF dtype = "bool"
                THEN (IF cells[i].text \in csv_true_values THEN "true"
                      ELSE "false")
            ELSE (IF cells[i].text # <<>> THEN "true" ELSE "false")]

true_vals == {<<"t", "r", "u", "e">>, <<"1">>, <<"y", "e", "s">>, <<"y">>}

false_vals == {<<"f", "a", "l", "s", "e">>, <<"0">>, <<"n", "o">>, <<"n">>}

\* safe_boolean on one cell (the CSV reader gives an empty cell as null).
safe_boolean(cell) ==
    LET col_str == lower(strip(cell.text))
    IN  IF cell.isnull \/ col_str = <<>> THEN "null"
        ELSE IF col_str \in true_vals THEN "true"
        ELSE IF col_str \in false_vals THEN "false"
        ELSE "null"

BoolInit ==
    /\ IngestInit
    /\ config = FullConfig
    /\ srcContent = [s \in SourceNames |-> "a"]
    /\ probe = NoProbe
    /\ rtTable = <<>>
    /\ imdbTable = <<>>
    /\ films = <<>>
    /\ sparkFilms = {}
    /\ built = {}
    /\ OutIdle
    /\ \E cells \in TopCriticColumns :
          call = [op |-> "isTopCritic", cells |-> cells]

\* transform.py build_reviews_table computes is_top_critic.
BuildReviewsTable ==
    /\ call.op = "isTopCritic"
    /\ call' = [op |-> "build_reviews_table", cells |-> call.cells,
                is_top_critic |-> astype_bool(call.cells)]
    /\ UNCHANGED <<ingestVars, outVars, probe, rtTable, imdbTable,
                   films, sparkFilms,                   built>>

\* spark_transform.py load_reviews computes is_top_critic.
LoadReviews ==
    /\ call.op = "isTopCritic"
    /\ call' = [op |-> "load_reviews", cells |-> call.cells,
                is_top_critic |->
                    [i \in 1..Len(call.cells) |->
                        safe_boolean(call.cells[i])]]
    /\ UNCHANGED <<ingestVars, outVars, probe, rtTable, imdbTable,
                   films, sparkFilms,                   built>>

NextBool ==
    \/ BuildReviewsTable
    \/ LoadReviews

BoolSpec == BoolInit /\ [][NextBool]_vars

\* The value the boolean-like normalizer is to give a raw cell.
BooleanLike(cell) ==
    IF cell.isnull THEN "null"
    ELSE IF lower(cell.text) \in
              {<<"t", "r", "u", "e">>, <<"1">>, <<"y", "e", "s">>, <<"y">>}
        THEN "true"
    ELSE IF lower(cell.text) \in
              {<<"f", "a", "l", "s", "e">>, <<"0">>, <<"n", "o">>, <<"n">>}
        THEN "false"
    ELSE "null"

\* C17: is_top_critic of every Review row is the boolean-like reading of
\* its raw token: true for true, 1, yes, y, false for false, 0, no, n
\* (whatever the case), null for anything else.
C17_TopCriticBooleanLike ==
    call.op \in {"build_reviews_table", "load_reviews"} =>
        \A i \in 1..Len(call.cells) :
            call.is_top_critic[i] = BooleanLike(call.cells[i])

\* C17 witness: transform.py has computed is_top_critic for a column that
\* holds the tokens Yes and no.
C17_Witness ==
    /\ call.op = "build_reviews_table"
    /\ call.cells = <<Cell(<<"Y", "e", "s">>), Cell(<<"n", "o">>)>>

\* -------------------------------------------------------------------------
\* Person extraction (transform.py build_people_table, spark_transform.py
\* build_people)
\* -------------------------------------------------------------------------
\* str.split(sep): the pieces of the text between the separators.
RECURSIVE split(_, _)
split(text, sep) ==
    LET seps == {i \in 1..Len(text) : text[i] = sep}
        cut  == CHOOSE i \in seps : \A k \in seps : i <= k
    IN  IF seps = {} THEN <<text>>
        ELSE <<SubSeq(text, 1, cut - 1)>>
             \o split(SubSeq(text, cut + 1, Len(text)), sep)

\* The (column, role) pairs, in the order build_people_table concatenates
\* them, and in the order build_people unites them.
PeopleColumns ==
    << <<"rt_director", "director_rt">>, <<"imdb_director", "director_imdb">>,
       <<"actors", "actor">>, <<"rt_writer", "writer_rt">>,
       <<"imdb_writer", "writer_imdb">> >>

SparkPeopleColumns ==
    << <<"rt_director", "director_rt">>, <<"imdb_director", "director_imdb">>,
       <<"rt_writer", "writer_rt">>, <<"imdb_writer", "writer_imdb">>,
       <<"actors", "actor">> >>

\* Free-text lists of names found in the Film table.
PeopleCells ==
    { NullCell,
      Cell(<<"A">>),
      Cell(<<"A", ",", " ", "A">>),
      Cell(<<"J", ".", " ", "R", "-", "b", ",", " ">>) }

FilmRows ==
    [film_id : {NULL, "f1"}, rt_director : PeopleCells,
     imdb_director : PeopleCells, actors : PeopleCells,
     rt_writer : PeopleCells, imdb_writer : PeopleCells]

FilmTables == UNION { [1..n -> FilmRows] : n \in 0..MaxFilmRows }

\* The names of one cell: the trimmed pieces that are not empty.
names_of(text) ==
    LET pieces == split(text, ",")
        clean  == [i \in 1..Len(pieces) |-> strip(pieces[i])]
    IN  SelectSeq(clean, LAMBDA name : name # <<>>)

\* explode_people: the records of one column, over the rows in which
\* neither film_id nor the column is missing.
explode_people(df, column, role) ==
    Flatten([i \in 1..Len(df) |->
        IF df[i].film_id = NULL \/ df[i][column].isnull THEN <<>>
        ELSE LET names == names_of(df[i][column].text)
             IN  [k \in 1..Len(names) |->
                    [film_id |-> df[i].film_id, name |-> names[k],
                     role |-> role]]])

\* name.str.lower().str.replace(" ", "_").str.replace(".", "")
person_id(name) ==
    remove([i \in 1..Len(name) |->
               IF lower(name)[i] = " " THEN "_" ELSE lower(name)[i]], ".")

\* \w of a regular expression.
IsWord(c) ==
    \/ IsDigit(c)
    \/ c = "_"
    \/ \E k \in 1..26 : c = UpperCase[k] \/ c = LowerCase[k]

\* F.regexp_replace(F.lower(name), r"[^\w]+", "_")
spark_person_id(name) ==
    LET low == lower(name)
    IN  Flatten([i \in 1..Len(low) |->
            IF IsWord(low[i]) THEN <<low[i]>>
            ELSE IF i = 1 \/ IsWord(low[i - 1]) THEN <<"_">>
            ELSE <<>>])

\* DataFrame.drop_duplicates(): the first of equal rows is kept.
drop_duplicates(rows) ==
    SelectSeq(Positions(Len(rows)),
              LAMBDA i : \A k \in 1..(i - 1) : rows[k] # rows[i])

\* people["name"] on a frame concatenated from frames without records,
\* which has no column.
KeyError == [error |-> "KeyError", rows |-> <<>>]

\* build_people_table.
build_people_table(df) ==
    LET people == Flatten([c \in 1..Len(PeopleColumns) |->
                     explode_people(df, PeopleColumns[c][1],
                                    PeopleColumns[c][2])])
        withId == [i \in 1..Len(people) |->
                     [film_id |-> people[i].film_id,
                      name |-> people[i].name, role |-> people[i].role,
                      person_id |-> person_id(people[i].name)]]
        kept   == drop_duplicates(withId)
    IN  IF people = <<>> THEN KeyError
        ELSE [error |-> "", rows |-> [n \in 1..Len(kept) |-> withId[kept[n]]]]

\* explode inside build_people: the rows of one column; a null column
\* counts as empty text, and rows without film_id are kept.  A DataFrame
\* has no row order: the rows are a set.
spark_explode(df, column, role) ==
    UNION { {[film_id |-> df[i].film_id, name |-> name, role |-> role] :
                name \in RowSet(names_of(df[i][column].text))} :
            i \in 1..Len(df) }

\* build_people: the union of the five columns' rows, person_id added,
\* duplicates of (film_id, name, role) dropped.
build_people(df) ==
    LET people == UNION { spark_explode(df, SparkPeopleColumns[c][1],
                                        SparkPeopleColumns[c][2]) :
                          c \in 1..Len(SparkPeopleColumns) }
    IN  {[film_id |-> p.film_id, name |-> p.name, role |-> p.role,
          person_id |-> spark_person_id(p.name)] : p \in people}

PeopleInit ==
    /\ IngestInit
    /\ config = FullConfig
    /\ srcContent = [s \in SourceNames |-> "a"]
    /\ probe = NoProbe
    /\ rtTable = <<>>
    /\ imdbTable = <<>>
    /\ films = <<>>
    /\ sparkFilms = {}
    /\ built = {}
    /\ OutIdle
    /\ \E df \in FilmTables : call = [op |-> "films", df |-> df]

\* transform.py extracts the Person table from the Film table.
BuildPeopleTable ==
    /\ call.op = "films"
    /\ call' = [op |-> "build_people_table", df |-> call.df,
                out |-> build_people_table(call.df)]
    /\ UNCHANGED <<ingestVars, outVars, probe, rtTable, imdbTable,
                   films, sparkFilms,                   built>>

\* spark_transform.py extracts the Person table from the Film table.
BuildPeople ==
    /\ call.op = "films"
    /\ call' = [op |-> "build_people", df |-> call.df,
                out |-> [error |-> "", rows |-> build_people(call.df)]]
    /\ UNCHANGED <<ingestVars, outVars, probe, rtTable, imdbTable,
                   films, sparkFilms,                   built>>

NextPeople ==
    \/ BuildPeopleTable
    \/ BuildPeople

PeopleSpec == PeopleInit /\ [][NextPeople]_vars

\* The rows of the Person table that has been built.
PersonRows ==
    IF call.op = "build_people_table" THEN RowSet(call.out.rows)
    ELSE call.out.rows

Triple(row) == [film_id |-> row.film_id, name |-> row.name, role |-> row.role]

\* The (film_id, name, role) facts of a Film table: for each film and each
\* of the five (column, role) pairs, the trimmed non-empty pieces of the
\* column's text between commas.
Facts(df) ==
    UNION { UNION { IF df[i][PeopleColumns[c][1]].isnull THEN {}
                    ELSE {[film_id |-> df[i].film_id, name |-> name,
                           role |-> PeopleColumns[c][2]] :
                            name \in RowSet(names_of(
                                df[i][PeopleColumns[c][1]].text))} :
                    c \in 1..Len(PeopleColumns) } :
            i \in 1..Len(df) }

\* C19: the Person table of a Film table is exactly its set of
\* (film_id, name, role) facts, each occurring once, with the same name
\* under two roles giving two rows.
C19_PeopleExactlyTheFacts ==
    call.op \in {"build_people_table", "build_people"} =>
        /\ call.out.error = ""
        /\ {Triple(row) : row \in PersonRows} = Facts(call.df)
        /\ \A a, b \in PersonRows : Triple(a) = Triple(b) => a = b
        /\ call.op = "build_people_table" =>
               Len(call.out.rows) = Cardinality(PersonRows)

\* C19 witness: transform.py has extracted the people of a Film table in
\* which no film names anybody.
C19_Witness ==
    /\ call.op = "build_people_table"
    /\ Facts(call.df) = {}

\* The slug of a name: lower case, every run of characters that are not
\* word characters replaced by one separator.
RECURSIVE Slug(_)
Slug(name) ==
    IF name = <<>> THEN <<>>
    ELSE LET init == SubSeq(name, 1, Len(name) - 1)
             last == lower(<<name[Len(name)]>>)
         IN  IF IsWord(last[1]) THEN Slug(init) \o last
             ELSE IF init # <<>> /\ ~IsWord(init[Len(init)]) THEN Slug(init)
             ELSE Slug(init) \o <<"_">>

\* C20: person_id of every Person row is the slug of its name.
C20_PersonIdIsSlug ==
    (call.op \in {"build_people_table", "build_people"}
        /\ call.out.error = "")
    => \A row \in PersonRows : row.person_id = Slug(row.name)

\* C20 witness: transform.py has given a person_id to a name that holds a
\* point followed by a blank, and a hyphen.
C20_Witness ==
    /\ call.op = "build_people_table"
    /\ call.out.error = ""
    /\ \E row \in PersonRows :
          row.name = <<"J", ".", " ", "R", "-", "b">>

\* -------------------------------------------------------------------------
\* Row counts of completed ingestions
\* -------------------------------------------------------------------------
\* The number of data lines of a content: its lines without the header.
DataLines(content) == ContentLines(content) - 1

\* C25: the row count of every completed ledger record, and of the success
\* marker of its run directory, is the number of lines of the copied file
\* minus one.
C25_RowCountIsDataLines ==
    \A i \in 1..Len(ledger) :
        ledger[i].status = "completed" =>
            \A c \in Contents :
                ledger[i].content_hash = compute_sha256(c) =>
                    /\ ledger[i].row_count = DataLines(c)
                    /\ \A k \in DOMAIN rawStore :
                          rawStore[k].marker.hash = compute_sha256(c) =>
                              rawStore[k].marker.rows = DataLines(c)

\* C25 witness: a completed record of a file of a header and two data lines
\* is in the ledger.
C25_Witness ==
    \E i \in 1..Len(ledger) :
        /\ ledger[i].status = "completed"
        /\ ledger[i].content_hash = compute_sha256("a")

\* -------------------------------------------------------------------------
\* Raw copies
\* -------------------------------------------------------------------------
\* The content of the file at a record's raw_path.
FileAt(raw_path) == rawStore[<<raw_path[1], raw_path[2]>>].file

\* C28: the file at the raw_path of every completed ledger record has the
\* content whose SHA-256 is the record's content_hash, and no two completed
\* records of a source share a run directory.
C28_RawCopiesNeverOverwritten ==
    /\ \A i \in 1..Len(ledger) :
          ledger[i].status = "completed" =>
              /\ FileAt(ledger[i].raw_path) # NoFile
              /\ compute_sha256(FileAt(ledger[i].raw_path))
                    = ledger[i].content_hash
    /\ \A i, j \in 1..Len(ledger) :
          (/\ i < j
           /\ ledger[i].status = "completed"
           /\ ledger[j].status = "completed"
           /\ ledger[i].source = ledger[j].source)
          => ledger[i].run_id # ledger[j].run_id

\* C28 witness: two completed ingestions of one source, from runs started
\* within the same clock second, are in the ledger.
C28_Witness ==
    \E i, j \in 1..Len(ledger) :
        /\ i < j
        /\ ledger[i].status = "completed"
        /\ ledger[j].status = "completed"
        /\ ledger[i].source = ledger[j].source
        /\ ledger[i].run_id = ledger[j].run_id

\* -------------------------------------------------------------------------
\* The raw file the transform stage reads (transform.py latest_raw_file)
\* -------------------------------------------------------------------------
FileNotFoundError == "FileNotFoundError"

\* The run directories of a source that exist.
run_dirs(store, source) == {id \in RunIds : store[<<source, id>>].exists}

\* latest_raw_file: the run directories of the source sorted in reverse
\* order of name (run_id is a zero-padded timestamp, so the order of names
\* is the order of time); the file of the first one that holds it.
latest_raw_file(store, source) ==
    LET holders == {id \in run_dirs(store, source) :
                        store[<<source, id>>].file # NoFile}
    IN  IF holders = {} THEN FileNotFoundError
        ELSE store[<<source,
                     CHOOSE id \in holders : \A o \in holders : o <= id>>].file

\* The raw store and the ledger after a run that ingested content "a" of
\* every source at second 0.
FirstRunStore ==
    [k \in SourceNames \X RunIds |->
        IF k[2] = 0
        THEN [exists |-> TRUE, file |-> "a",
              marker |-> success_marker(k[1], row_count_of("a"),
                                        compute_sha256("a"))]
        ELSE NoDir]

FirstRunLedger ==
    [i \in 1..Len(SOURCES) |->
        build_metadata_record(0, SOURCES[i], "completed",
                              compute_sha256("a"), row_count_of("a"),
                              ContentBytes("a"), RawPath(SOURCES[i], 0))]

\* A pipeline that has run once, at second 0, on content "a" of every
\* source; since then the input file of rt_movies may have been replaced.
RerunInit ==
    /\ config = FullConfig
    /\ srcContent \in { [s \in SourceNames |-> "a"],
                        [s \in SourceNames |->
                            IF s = "rt_movies" THEN "b" ELSE "a"] }
    /\ rawStore = FirstRunStore
    /\ ledger = FirstRunLedger
    /\ clock = 0
    /\ runsStarted = 0
    /\ edits = 0
    /\ pc = [r \in Runs |-> "idle"]
    /\ runId = [r \in Runs |-> 0]
    /\ selected = [r \in Runs |-> {}]
    /\ idx = [r \in Runs |-> 1]
    /\ results = [r \in Runs |-> <<>>]
    /\ cur = [r \in Runs |-> NoLocals]
    /\ ledgerAtStart = [r \in Runs |-> <<>>]
    /\ copies = [k \in SourceNames \X Digests |->
                    IF k[2] = compute_sha256("a") THEN 1 ELSE 0]
    /\ faults = 0
    /\ probe = NoProbe
    /\ EtlIdle

RerunSpec == RerunInit /\ [][Next]_vars

\* C27: when a run has ended and returned completed or skipped for a
\* source, the file latest_raw_file selects for that source has the content
\* of the source file that run was presented with.
C27_LatestRawFileIsLastPresented ==
    \A r \in Runs :
        pc[r] = "done" =>
            \A i \in 1..Len(results[r]) :
                results[r][i].status \in {"completed", "skipped"} =>
                    LET raw == latest_raw_file(rawStore, results[r][i].source)
                    IN  /\ raw # FileNotFoundError
                        /\ compute_sha256(raw) = results[r][i].content_hash

\* C27 witness: a run has ended that skipped rt_movies, whose content had
\* been ingested before another content was.
C27_Witness ==
    \E r \in Runs :
        /\ pc[r] = "done"
        /\ \E i \in 1..Len(results[r]) :
              /\ results[r][i].source = "rt_movies"
              /\ results[r][i].status = "skipped"
              /\ results[r][i].content_hash = compute_sha256("a")
        /\ \E j \in 1..Len(ledger) :
              /\ ledger[j].source = "rt_movies"
              /\ ledger[j].content_hash = compute_sha256("b")

\* -------------------------------------------------------------------------
\* Reading a raw source from one of several locations
\* (spark_transform.py read_with_fallback)
\* -------------------------------------------------------------------------
MaxCandidates == 2

\* The locations a raw source is looked for: under the configured base and
\* under DEFAULT_RAW_URI.
Uris == {"primary", "default"}

\* What read_source_dir does at a location: it returns a DataFrame or it
\* raises.
ReadOutcomes ==
    [ok : {TRUE}, value : {"frame1", "frame2"}]
        \cup [ok : {FALSE}, value : {"AnalysisException", "Py4JJavaError"}]

CandidateTuples == UNION { [1..n -> Uris] : n \in 0..MaxCandidates }

None == "None"

\* A cause taken from the first error collected.
first_error(errors) == IF errors # <<>> THEN errors[1] ELSE None

\* errors[-1] if errors else None
last_error(errors) == IF errors # <<>> THEN errors[Len(errors)] ELSE None

FallbackInit ==
    /\ IngestInit
    /\ config = FullConfig
    /\ srcContent = [s \in SourceNames |-> "a"]
    /\ probe = NoProbe
    /\ rtTable = <<>>
    /\ imdbTable = <<>>
    /\ films = <<>>
    /\ sparkFilms = {}
    /\ built = {}
    /\ call = NoCall
    /\ curated = [p \in Paths |-> Absent]
    /\ \E candidates \in CandidateTuples, reads \in [Uris -> ReadOutcomes] :
          job = [op         |-> "read_with_fallback",
                 pc         |-> "loop",
                 candidates |-> candidates,
                 reads      |-> reads,
                 i          |-> 1,
                 errors     |-> <<>>,
                 tried      |-> <<>>,
                 result     |-> None,
                 cause      |-> None]

\* One turn of the loop: read_source_dir on the next candidate; its frame
\* is returned, or its exception is appended to errors.
ReadSourceDir ==
    /\ job.op = "read_with_fallback"
    /\ job.pc = "loop"
    /\ job.i <= Len(job.candidates)
    /\ LET out == job.reads[job.candidates[job.i]]
       IN  IF out.ok
           THEN job' = [job EXCEPT !.pc = "returned",
                                   !.result = out.value,
                                   !.tried = Append(@, job.i)]
           ELSE job' = [job EXCEPT !.errors = Append(@, out.value),
                                   !.tried = Append(@, job.i),
                                   !.i = @ + 1]
    /\ UNCHANGED <<ingestVars, probe, etlVars, curated>>

\* After the loop: raise RuntimeError from errors[-1].
RaiseRuntimeError ==
    /\ job.op = "read_with_fallback"
    /\ job.pc = "loop"
    /\ job.i > Len(job.candidates)
    /\ job' = [job EXCEPT !.pc = "raised", !.cause = last_error(job.errors)]
    /\ UNCHANGED <<ingestVars, probe, etlVars, curated>>

NextFallback ==
    \/ ReadSourceDir
    \/ RaiseRuntimeError

FallbackSpec == FallbackInit /\ [][NextFallback]_vars

\* The outcome of reading the k-th candidate.
ReadOf(k) == job.reads[job.candidates[k]]

\* C26: the candidates are tried in order; no candidate is tried after one
\* that was read; the frame returned is that of the first candidate whose
\* read succeeds; RuntimeError is raised only when every candidate was tried
\* and failed, and its cause is the error of the last candidate.
C26_FirstSuccessWinsLastErrorSurfaces ==
    job.op = "read_with_fallback" =>
        /\ \A k \in 1..Len(job.tried) : job.tried[k] = k
        /\ \A k \in 1..(Len(job.tried) - 1) : ~ReadOf(k).ok
        /\ job.pc = "returned" =>
              /\ ReadOf(Len(job.tried)).ok
              /\ job.result = ReadOf(Len(job.tried)).value
        /\ job.pc = "raised" =>
              /\ Len(job.tried) = Len(job.candidates)
              /\ \A k \in 1..Len(job.candidates) : ~ReadOf(k).ok
              /\ job.candidates # <<>> =>
                    job.cause = ReadOf(Len(job.candidates)).value

\* C26 witness: both candidates were tried, they failed with different
\* errors, and RuntimeError has been raised.
C26_Witness ==
    /\ job.op = "read_with_fallback"
    /\ job.pc = "raised"
    /\ Len(job.tried) = 2
    /\ job.errors[1] # job.errors[2]

\* -------------------------------------------------------------------------
\* Writing the output tables (transform.py run_etl, spark_transform.py main)
\* -------------------------------------------------------------------------
\* The raw store and the ledger after a first run that left rt_movies out.
PartialRunStore ==
    [k \in SourceNames \X RunIds |->
        IF k[1] = "rt_movies" THEN NoDir ELSE FirstRunStore[k]]

IsNotRtMovies(record) == record.source # "rt_movies"

PartialRunLedger == SelectSeq(FirstRunLedger, IsNotRtMovies)

\* data/curated and the analytical store before the transform stage runs:
\* empty, or holding the tables of an earlier run.
CuratedBefore(prev) ==
    [p \in Paths |->
        CASE p[2] \in {"final_path", "target", "duckdb"} -> prev
          [] p[2] = "table_dir" ->
                IF prev = Absent THEN Absent ELSE Directory
          [] OTHER -> Absent]

\* What the raw data does to the row-level code: nothing, or no film names
\* anybody (build_people_table raises KeyError), or a Runtime cell is "."
\* (parse_runtime of spark_transform.py raises ValueError).
Defects == {"none", "no_people", "runtime_dot"}

\* The raw sources a table is built from.
RawSourcesOf(table) ==
    CASE table = "films"   -> {"rt_movies", "imdb_kaggle"}
      [] table = "reviews" -> {"rt_reviews"}
      [] OTHER             -> {}

\* The locals of run_etl or main when it starts.
NewJob(op, prev, defect, local_mirror) ==
    [op           |-> op,
     pc           |-> "build",
     t            |-> 1,
     prev         |-> prev,
     defect       |-> defect,
     local_mirror |-> local_mirror,
     parts        |-> None,
     error        |-> "",
     raised_in    |-> ""]

OutputInit ==
    /\ config = FullConfig
    /\ srcContent = [s \in SourceNames |-> "a"]
    /\ \/ rawStore = FirstRunStore /\ ledger = FirstRunLedger
       \/ rawStore = PartialRunStore /\ ledger = PartialRunLedger
    /\ clock = 0
    /\ runsStarted = 0
    /\ edits = 0
    /\ pc = [r \in Runs |-> "idle"]
    /\ runId = [r \in Runs |-> 0]
    /\ selected = [r \in Runs |-> {}]
    /\ idx = [r \in Runs |-> 1]
    /\ results = [r \in Runs |-> <<>>]
    /\ cur = [r \in Runs |-> NoLocals]
    /\ ledgerAtStart = [r \in Runs |-> <<>>]
    /\ copies = [k \in SourceNames \X Digests |->
                    IF /\ k[2] = compute_sha256("a")
                       /\ rawStore[<<k[1], 0>>].exists
                    THEN 1 ELSE 0]
    /\ faults = 0
    /\ probe = NoProbe
    /\ rtTable = <<>>
    /\ imdbTable = <<>>
    /\ films = <<>>
    /\ sparkFilms = {}
    /\ built = {}
    /\ call = NoCall
    /\ \E prev \in {Absent, "old"}, defect \in Defects :
          /\ curated = CuratedBefore(prev)
          /\ \/ job = NewJob("run_etl", prev, defect, FALSE)
             \/ \E local_mirror \in BOOLEAN :
                   job = NewJob("main", prev, defect, local_mirror)

\* The job raises: the exception leaves run_etl or main.
Raise(error, raised_in) ==
    [job EXCEPT !.pc = "raised", !.error = error, !.raised_in = raised_in]

\* The table being written.
Table == TABLES[job.t]

\* The first table, in the order given, whose raw sources are not all in
\* the raw store; "" when there is none.
first_missing(store, order) ==
    LET lacking == {k \in 1..Len(order) :
                      \E source \in RawSourcesOf(order[k]) :
                          latest_raw_file(store, source) = FileNotFoundError}
    IN  IF lacking = {} THEN ""
        ELSE order[CHOOSE k \in lacking : \A o \in lacking : k <= o]

\* run_etl, lines 316-318: build_films_table, build_reviews_table and
\* build_people_table, each reading its raw files through latest_raw_file.
\* Nothing is written.
RunEtlBuild ==
    /\ job.op = "run_etl"
    /\ job.pc = "build"
    /\ job' = IF first_missing(rawStore, TABLES) # ""
              THEN Raise(FileNotFoundError, "build")
              ELSE IF job.defect = "no_people"
              THEN Raise("KeyError", "build")
              ELSE [job EXCEPT !.pc = "mkdir"]
    /\ UNCHANGED <<ingestVars, probe, etlVars, curated>>

\* write_parquet: path.parent.mkdir(parents=True, exist_ok=True)
WriteParquetMkdir ==
    /\ job.op = "run_etl"
    /\ job.pc = "mkdir"
    /\ curated' = [curated EXCEPT ![<<Table, "table_dir">>] = Directory]
    /\ job' = [job EXCEPT !.pc = "to_parquet"]
    /\ UNCHANGED <<ingestVars, probe, etlVars>>

\* write_parquet: df.to_parquet(tmp_path) creates the file, ...
ToParquetOpen ==
    /\ job.op = "run_etl"
    /\ job.pc = "to_parquet"
    /\ curated[<<Table, "tmp_path">>] \notin {"empty", "partial"}
    /\ curated' = [curated EXCEPT ![<<Table, "tmp_path">>] = "empty"]
    /\ UNCHANGED <<ingestVars, probe, etlVars, job>>

\* ... writes row groups to it, ...
ToParquetWrite ==
    /\ job.op = "run_etl"
    /\ job.pc = "to_parquet"
    /\ curated[<<Table, "tmp_path">>] = "empty"
    /\ curated' = [curated EXCEPT ![<<Table, "tmp_path">>] = "partial"]
    /\ UNCHANGED <<ingestVars, probe, etlVars, job>>

\* ... and closes it with the footer written.
ToParquetClose ==
    /\ job.op = "run_etl"
    /\ job.pc = "to_parquet"
    /\ curated[<<Table, "tmp_path">>] = "partial"
    /\ curated' = [curated EXCEPT ![<<Table, "tmp_path">>] = "new"]
    /\ job' = [job EXCEPT !.pc = "replace"]
    /\ UNCHANGED <<ingestVars, probe, etlVars>>

\* write_parquet: tmp_path.replace(path), one rename within a directory.
\* After the third table run_etl goes on to materialize_duckdb.
Replace ==
    /\ job.op = "run_etl"
    /\ job.pc = "replace"
    /\ curated' = [curated EXCEPT
                     ![<<Table, "final_path">>] =
                         curated[<<Table, "tmp_path">>],
                     ![<<Table, "tmp_path">>] = Absent]
    /\ job' = IF job.t < Len(TABLES)
              THEN [job EXCEPT !.pc = "mkdir", !.t = @ + 1]
              ELSE [job EXCEPT !.pc = "materialize", !.t = 1]
    /\ UNCHANGED <<ingestVars, probe, etlVars>>

\* materialize_duckdb: one CREATE OR REPLACE TABLE ... AS SELECT * FROM
\* read_parquet(...) per table; run_etl returns after the third.
MaterializeDuckdb ==
    /\ job.op = "run_etl"
    /\ job.pc = "materialize"
    /\ curated' = [curated EXCEPT
                     ![<<Table, "duckdb">>] = curated[<<Table, "final_path">>]]
    /\ job' = IF job.t < Len(TABLES)
              THEN [job EXCEPT !.t = @ + 1]
              ELSE [job EXCEPT !.pc = "returned"]
    /\ UNCHANGED <<ingestVars, probe, etlVars>>

\* main, lines 394-399: load_rt_movies, load_imdb and load_reviews read
\* their source directory through read_with_fallback, which raises
\* RuntimeError when the directory is missing; build_films and build_people
\* only compose the plan of their table, whose rows are computed when the
\* table is written.
MainLoad ==
    /\ job.op = "main"
    /\ job.pc = "build"
    /\ job' = IF first_missing(rawStore, TABLES) # ""
              THEN Raise("RuntimeError", "build")
              ELSE [job EXCEPT !.pc = "overwrite"]
    /\ UNCHANGED <<ingestVars, probe, etlVars, curated>>

\* write_table: df.write.mode("overwrite") removes what is at the target
\* before the job that computes and writes the rows starts.
WriteTableOverwrite ==
    /\ job.op = "main"
    /\ job.pc = "overwrite"
    /\ curated' = [curated EXCEPT ![<<Table, "target">>] = Absent]
    /\ job' = [job EXCEPT !.pc = "job"]
    /\ UNCHANGED <<ingestVars, probe, etlVars>>

\* The tables whose rows go through parse_runtime: films, and people, which
\* is computed from films.
UsesRuntime(table) == table \in {"films", "people"}

\* write_table: the job computes the rows of the table and writes them; a
\* row-level function that raises fails the job, and with it the building of
\* the table.
WriteTableJob ==
    /\ job.op = "main"
    /\ job.pc = "job"
    /\ IF job.defect = "runtime_dot" /\ UsesRuntime(Table)
       THEN /\ job' = Raise("ValueError", "build")
            /\ UNCHANGED curated
       ELSE /\ curated' = [curated EXCEPT ![<<Table, "target">>] = "new"]
            /\ job' = IF job.t < Len(TABLES)
                      THEN [job EXCEPT !.pc = "overwrite", !.t = @ + 1]
                      ELSE [job EXCEPT !.pc = "mirror", !.t = 1]
    /\ UNCHANGED <<ingestVars, probe, etlVars>>

\* maybe_mirror_local returns to main, which mirrors the next table or
\* stops.
MirrorReturn ==
    IF job.t < Len(TABLES)
    THEN [job EXCEPT !.pc = "mirror", !.t = @ + 1, !.parts = None]
    ELSE [job EXCEPT !.pc = "returned"]

\* maybe_mirror_local, lines 369-374: return when no local directory is
\* given; tmp_dir carries a fresh uuid, so it does not exist.
MirrorEntry ==
    /\ job.op = "main"
    /\ job.pc = "mirror"
    /\ job' = IF job.local_mirror THEN [job EXCEPT !.pc = "staging"]
              ELSE MirrorReturn
    /\ UNCHANGED <<ingestVars, probe, etlVars, curated>>

\* Line 375: the writer creates tmp_dir and writes one part file, or none,
\* or it raises, with tmp_dir created or not.
StagingWrite ==
    /\ job.op = "main"
    /\ job.pc = "staging"
    /\ \/ /\ curated' = [curated EXCEPT ![<<Table, "tmp_dir">>] = Directory,
                                        ![<<Table, "part">>] = "new"]
          /\ job' = [job EXCEPT !.pc = "check", !.parts = "one"]
       \/ /\ curated' = [curated EXCEPT ![<<Table, "tmp_dir">>] = Directory]
          /\ job' = [job EXCEPT !.pc = "check", !.parts = "zero"]
       \/ /\ \E left \in {Absent, Directory} :
                curated' = [curated EXCEPT ![<<Table, "tmp_dir">>] = left]
          /\ job' = Raise("Py4JJavaError", "maybe_mirror_local")
    /\ UNCHANGED <<ingestVars, probe, etlVars>>

\* Lines 376-379: without a part file, remove tmp_dir and raise.
ZeroPartCheck ==
    /\ job.op = "main"
    /\ job.pc = "check"
    /\ IF curated[<<Table, "part">>] = Absent
       THEN /\ curated' = [curated EXCEPT ![<<Table, "tmp_dir">>] = Absent]
            /\ job' = Raise(FileNotFoundError, "maybe_mirror_local")
       ELSE /\ job' = [job EXCEPT !.pc = "rmtree"]
            /\ UNCHANGED curated
    /\ UNCHANGED <<ingestVars, probe, etlVars>>

\* Lines 380-381: a table directory that exists is removed with all it
\* holds; shutil.rmtree may raise, before or after it removed the table.
RemoveOldTable ==
    /\ job.op = "main"
    /\ job.pc = "rmtree"
    /\ IF curated[<<Table, "table_dir">>] = Absent
       THEN /\ job' = [job EXCEPT !.pc = "mirror_mkdir"]
            /\ UNCHANGED curated
       ELSE \/ /\ curated' = [curated EXCEPT
                                ![<<Table, "table_dir">>] = Absent,
                                ![<<Table, "final_path">>] = Absent,
                                ![<<Table, "tmp_path">>] = Absent]
               /\ job' = [job EXCEPT !.pc = "mirror_mkdir"]
            \/ /\ \E left \in {Absent, curated[<<Table, "final_path">>]} :
                     curated' = [curated EXCEPT
                                   ![<<Table, "final_path">>] = left]
               /\ job' = Raise("OSError", "maybe_mirror_local")
    /\ UNCHANGED <<ingestVars, probe, etlVars>>

\* Line 382: table_dir.mkdir(parents=True, exist_ok=True)
MirrorMkdir ==
    /\ job.op = "main"
    /\ job.pc = "mirror_mkdir"
    /\ curated' = [curated EXCEPT ![<<Table, "table_dir">>] = Directory]
    /\ job' = [job EXCEPT !.pc = "rename"]
    /\ UNCHANGED <<ingestVars, probe, etlVars>>

\* Lines 383-386: final_path, were it there, would be unlinked (it never is:
\* its directory was removed, or was never there); the part file is renamed
\* to final_path, or the rename raises.
MirrorRename ==
    /\ job.op = "main"
    /\ job.pc = "rename"
    /\ \/ /\ curated' = [curated EXCEPT
                           ![<<Table, "final_path">>] =
                               curated[<<Table, "part">>],
                           ![<<Table, "part">>] = Absent]
          /\ job' = [job EXCEPT !.pc = "cleanup"]
       \/ /\ job' = Raise("OSError", "maybe_mirror_local")
          /\ UNCHANGED curated
    /\ UNCHANGED <<ingestVars, probe, etlVars>>

\* Line 387: shutil.rmtree(tmp_dir, ignore_errors=True)
MirrorCleanup ==
    /\ job.op = "main"
    /\ job.pc = "cleanup"
    /\ curated' = [curated EXCEPT ![<<Table, "tmp_dir">>] = Absent,
                                  ![<<Table, "part">>] = Absent]
    /\ job' = MirrorReturn
    /\ UNCHANGED <<ingestVars, probe, etlVars>>

NextOutput ==
    \/ RunEtlBuild
    \/ WriteParquetMkdir
    \/ ToParquetOpen
    \/ ToParquetWrite
    \/ ToParquetClose
    \/ Replace
    \/ MaterializeDuckdb
    \/ MainLoad
    \/ WriteTableOverwrite
    \/ WriteTableJob
    \/ MirrorEntry
    \/ StagingWrite
    \/ ZeroPartCheck
    \/ RemoveOldTable
    \/ MirrorMkdir
    \/ MirrorRename
    \/ MirrorCleanup

OutputSpec == OutputInit /\ [][NextOutput]_vars

\* C21: whatever the state of a write, a reader of a table's destination
\* path finds the whole table of the earlier run (or nothing, when there
\* was no earlier run) or the whole new table.
C21_DestinationOldOrNew ==
    job.op \in {"run_etl", "main"} =>
        \A table \in TableNames :
            curated[<<table, "final_path">>] \in {job.prev, "new"}

\* C21 witness: maybe_mirror_local is about to rename the part file to the
\* destination of a table that an earlier run had written.
C21_Witness ==
    /\ job.op = "main"
    /\ job.pc = "rename"
    /\ job.prev = "old"

\* The positions of maybe_mirror_local after its staging write.
InMirror == {"check", "rmtree", "mirror_mkdir", "rename", "cleanup"}

\* C22: a staging directory exists only while the maybe_mirror_local call
\* that created it is running, not after the call returned or raised; and
\* a call whose writer produced no part file ends by raising
\* FileNotFoundError.
C22_StagingRemovedZeroPartsRaise ==
    job.op = "main" =>
        /\ \A table \in TableNames :
              curated[<<table, "tmp_dir">>] # Absent =>
                  /\ table = Table
                  /\ job.pc \in InMirror
        /\ (job.parts = "zero" /\ job.pc \notin InMirror) =>
              /\ job.pc = "raised"
              /\ job.error = FileNotFoundError

\* C22 witness: the final rename of maybe_mirror_local has raised.
C22_Witness ==
    /\ job.op = "main"
    /\ job.pc = "raised"
    /\ job.raised_in = "maybe_mirror_local"
    /\ job.error = "OSError"
    /\ curated[<<Table, "table_dir">>] = Directory
    /\ curated[<<Table, "final_path">>] = Absent

\* C23: when the building of a table has failed, the output tables and the
\* analytical store are as they were before the run.
C23_BuildFailureWritesNothing ==
    (job.pc = "raised" /\ job.raised_in = "build") =>
        curated = CuratedBefore(job.prev)

\* C23 witness: the building of the Film table has failed on a Runtime
\* cell, in a run that found the tables of an earlier run.
C23_Witness ==
    /\ job.op = "main"
    /\ job.pc = "raised"
    /\ job.raised_in = "build"
    /\ job.error = "ValueError"
    /\ job.prev = "old"

\* -------------------------------------------------------------------------
\* The two pipelines on the same raw tables
\* -------------------------------------------------------------------------
\* C24: built from the same two raw tables, the Film table of transform.py
\* and the Film table of spark_transform.py hold the same rows.
C24_SameFilmRows ==
    built = {"pandas", "spark"} =>
        {Content(row) : row \in RowSet(films)}
            = {Content(row) : row \in sparkFilms}

\* C24 witness: both pipelines have built their Film table from an
\* aggregator row without id and a catalog row without extractable id.
C24_Witness ==
    /\ built = {"pandas", "spark"}
    /\ Len(rtTable) = 1 /\ rtTable[1].rt_id = NULL
    /\ Len(imdbTable) = 1
    /\ extract_rt_id(imdbTable[1].tomatoURL) = NULL
    /\ films # <<>>
    /\ sparkFilms # {}

====
